---- MODULE Spec2Model ----
(***************************************************************************)
(* A model of firebase-rest-firestore (src/src/client.ts, src/src/utils):  *)
(* the value codec, the path builder, the document client working against *)
(* a document store, and the reference graph.                              *)
(*                                                                         *)
(* Strings that the code parses (paths, resource names, dotted keys) are   *)
(* sequences of atoms: "/" and "." are atoms of their own, every other     *)
(* atom stands for a run of characters holding no separator.               *)
(***************************************************************************)
EXTENDS Integers, Sequences, FiniteSets, TLC

(***************************************************************************)
(* Strings                                                                 *)
(***************************************************************************)
S(a) == <<a>>

RECURSIVE SplitFrom(_, _, _)
\* String.prototype.split(sep): cur is the segment being read.
SplitFrom(s, sep, cur) ==
  IF s = <<>> THEN <<cur>>
  ELSE IF Head(s) = sep THEN <<cur>> \o SplitFrom(Tail(s), sep, <<>>)
  ELSE SplitFrom(Tail(s), sep, Append(cur, Head(s)))

Split(s, sep) == SplitFrom(s, sep, <<>>)

RECURSIVE Join(_, _)
\* Array.prototype.join(sep)
Join(parts, sep) ==
  IF parts = <<>> THEN <<>>
  ELSE IF Len(parts) = 1 THEN parts[1]
  ELSE parts[1] \o <<sep>> \o Join(Tail(parts), sep)

Includes(s, c) == \E i \in 1..Len(s) : s[i] = c

RECURSIVE StripLeading(_, _)
StripLeading(s, c) ==
  IF s # <<>> /\ Head(s) = c THEN StripLeading(Tail(s), c) ELSE s

RECURSIVE StripTrailing(_, _)
StripTrailing(s, c) ==
  IF s # <<>> /\ s[Len(s)] = c THEN StripTrailing(SubSeq(s, 1, Len(s) - 1), c) ELSE s

\* path.replace(/^\/+|\/+$/g, '')
CleanPath(s) == StripTrailing(StripLeading(s, "/"), "/")

(***************************************************************************)
(* JavaScript values                                                       *)
(***************************************************************************)
Undefined == [k |-> "undefined"]
Null      == [k |-> "null"]
Str(s)    == [k |-> "string", s |-> s]
Num(n)    == [k |-> "number", n |-> n]
\* the number n + 1/2
Half(n)   == [k |-> "number", n |-> n, half |-> TRUE]
Bool(b)   == [k |-> "boolean", b |-> b]
\* a plain object: m maps property names to values
Obj(m)    == [k |-> "object", m |-> m]
\* an array: its elements a, and the named (non-index) properties p that
\* JavaScript lets a program set on it
Arr(a, p) == [k |-> "array", a |-> a, p |-> p]
\* a Date: t is its instant in milliseconds, or "NaN" for an Invalid Date
Date(t)   == [k |-> "date", t |-> t]

EmptyMap == [x \in {} |-> Null]
EmptyObj == Obj(EmptyMap)

\* typeof v
TypeOf(v) ==
  IF v.k \in {"object", "array", "null", "date"} THEN "object" ELSE v.k

\* Number.isInteger(v) on a number
IsInteger(v) == "half" \notin DOMAIN v

\* ToBoolean(v)
Truthy(v) ==
  CASE v.k = "undefined" -> FALSE
    [] v.k = "null"      -> FALSE
    [] v.k = "string"    -> v.s # <<>>
    [] v.k = "number"    -> v.n # 0 \/ ~IsInteger(v)
    [] v.k = "boolean"   -> v.b
    [] OTHER             -> TRUE

\* the own properties of an object-like value
Props(v) == IF v.k = "object" THEN v.m ELSE IF v.k = "array" THEN v.p ELSE EmptyMap

\* v[key] for a property name that is no array index
GetProp(v, key) ==
  IF key \in DOMAIN Props(v) THEN Props(v)[key] ELSE Undefined

\* m with m[key] = val
MapSet(m, key, val) == (key :> val) @@ m

\* v[key] = val on an object or an array
SetProp(v, key, val) ==
  IF v.k = "object" THEN Obj(MapSet(v.m, key, val))
  ELSE IF v.k = "array" THEN Arr(v.a, MapSet(v.p, key, val))
  ELSE v

\* { ...a, ...b } on property maps
Spread(a, b) == b @@ a

(***************************************************************************)
(* Value codec (utils/converter.ts)                                        *)
(***************************************************************************)
\* const v = <expression>; <the statements that use v>
Bind(v, Rest(_)) == Rest(v)

\* the digits of the milliseconds field
Pad3(t) == <<ToString(t \div 100), ToString((t \div 10) % 10), ToString(t % 10)>>

\* Date.prototype.toISOString, for an instant in the first second of the epoch
toISOString(t) == <<"1970-01-01T00:00:00.">> \o Pad3(t) \o <<"Z">>

IsDigit(c) == \E d \in 0..9 : ToString(d) = c

DigitOf(c) == CHOOSE d \in 0..9 : ToString(d) = c

\* new Date(s) that reads the string to the second
DateParse_Seconds(s) ==
  IF Len(s) = 5 /\ s[1] = "1970-01-01T00:00:00." /\ s[5] = "Z"
    THEN Date(0)
    ELSE Date("NaN")

\* new Date(s): the instant an ISO string denotes, an Invalid Date otherwise
DateParse(s) ==
  IF /\ Len(s) = 5 /\ s[1] = "1970-01-01T00:00:00." /\ s[5] = "Z"
     /\ \A i \in 2..4 : IsDigit(s[i])
    THEN Date(100 * DigitOf(s[2]) + 10 * DigitOf(s[3]) + DigitOf(s[4]))
    ELSE Date("NaN")

RECURSIVE convertToFirestoreValue(_)
convertToFirestoreValue(value) ==
  CASE value.k = "date"      -> [timestampValue |-> toISOString(value.t)]
    [] value.k = "string"    -> [stringValue |-> value.s]
    [] value.k = "number"    -> IF IsInteger(value) THEN [integerValue |-> value.n]
                                ELSE [doubleValue |-> value]
    [] value.k = "boolean"   -> [booleanValue |-> value.b]
    [] value.k = "null"      -> [nullValue |-> "null"]
    [] value.k = "undefined" -> [nullValue |-> "null"]
    [] value.k = "array"     ->
         [arrayValue |->
            [values |-> [i \in 1..Len(value.a) |-> convertToFirestoreValue(value.a[i])]]]
    [] value.k = "object"    ->
         [mapValue |->
            [fields |-> [key \in DOMAIN value.m |-> convertToFirestoreValue(value.m[key])]]]

\* `"mapValue" in v && v.mapValue.fields`: an empty fields object is truthy,
\* an absent one is not (and likewise for arrayValue.values)
RECURSIVE convertFromFirestoreValue(_)
convertFromFirestoreValue(firestoreValue) ==
  IF "stringValue" \in DOMAIN firestoreValue THEN Str(firestoreValue.stringValue)
  ELSE IF "integerValue" \in DOMAIN firestoreValue THEN Num(firestoreValue.integerValue)
  ELSE IF "doubleValue" \in DOMAIN firestoreValue THEN firestoreValue.doubleValue
  ELSE IF "booleanValue" \in DOMAIN firestoreValue THEN Bool(firestoreValue.booleanValue)
  ELSE IF "nullValue" \in DOMAIN firestoreValue THEN Null
  ELSE IF "timestampValue" \in DOMAIN firestoreValue
    THEN DateParse(firestoreValue.timestampValue)
  ELSE IF "mapValue" \in DOMAIN firestoreValue
          /\ "fields" \in DOMAIN firestoreValue.mapValue
    THEN Obj([key \in DOMAIN firestoreValue.mapValue.fields |->
                convertFromFirestoreValue(firestoreValue.mapValue.fields[key])])
  ELSE IF "arrayValue" \in DOMAIN firestoreValue
          /\ "values" \in DOMAIN firestoreValue.arrayValue
    THEN Arr([i \in 1..Len(firestoreValue.arrayValue.values) |->
                convertFromFirestoreValue(firestoreValue.arrayValue.values[i])],
             EmptyMap)
  ELSE Null

\* data is the property map of the caller's object
convertToFirestoreDocument(data) ==
  [fields |-> [key \in DOMAIN data |-> convertToFirestoreValue(data[key])]]

\* what a pure function returns or raises
Returns(val) == [ok |-> TRUE, val |-> val, err |-> "none"]
Raises(err)  == [ok |-> FALSE, val |-> Undefined, err |-> err]

\* utils/path.ts getDocumentId: path.split("/") on undefined is a TypeError
getDocumentId(path) ==
  IF path.k = "undefined" THEN Raises("TypeError")
  ELSE Returns(Split(path.s, "/")[Len(Split(path.s, "/"))])

IdKey == <<"id">>

\* doc.name, undefined for a document without one
NameOf(doc) == IF "name" \in DOMAIN doc THEN Str(doc.name) ELSE Undefined

\* returns the property map of the decoded object
convertFromFirestoreDocument(doc) ==
  Bind(getDocumentId(NameOf(doc)), LAMBDA id :
    IF ~id.ok THEN id
    ELSE IF "fields" \notin DOMAIN doc THEN Returns(IdKey :> Str(id.val))
    ELSE Returns(MapSet([key \in DOMAIN doc.fields |->
                           convertFromFirestoreValue(doc.fields[key])],
                        IdKey, Str(id.val))))

(***************************************************************************)
(* Configuration and path builder (utils/path.ts)                          *)
(***************************************************************************)
\* a || b
Or(a, b) == IF Truthy(a) THEN a ELSE b

\* `${v}` in a template literal
ToStr(v) ==
  CASE v.k = "string"    -> v.s
    [] v.k = "undefined" -> <<"undefined">>
    [] v.k = "null"      -> <<"null">>
    [] v.k = "number"    -> IF IsInteger(v) THEN <<ToString(v.n)>>
                            ELSE <<ToString(v.n), ".", "5">>
    [] v.k = "boolean"   -> IF v.b THEN <<"true">> ELSE <<"false">>
    [] OTHER             -> <<"[object Object]">>

\* the fields the FirestorePath constructor keeps
FirestorePath(config) ==
  [projectId    |-> config.projectId,
   databaseId   |-> Or(config.databaseId, Str(S("(default)"))),
   useEmulator  |-> Truthy(config.useEmulator),
   emulatorHost |-> IF Truthy(config.useEmulator)
                      THEN Or(config.emulatorHost, Str(S("localhost")))
                      ELSE Str(S("localhost")),
   emulatorPort |-> IF Truthy(config.useEmulator)
                      THEN Or(config.emulatorPort, Num(8080))
                      ELSE Num(8080)]

DocumentsSuffix(projectId, databaseId) ==
  <<"/", "projects", "/">> \o ToStr(projectId) \o <<"/", "databases", "/">>
    \o ToStr(databaseId) \o <<"/", "documents">>

\* FirestorePath.getBasePath
getBasePath(pathUtil) ==
  LET baseUrl == IF pathUtil.useEmulator
                   THEN <<"http://">> \o ToStr(pathUtil.emulatorHost) \o <<":">>
                          \o ToStr(pathUtil.emulatorPort) \o <<"/", "v1">>
                   ELSE <<"https://firestore.googleapis.com", "/", "v1">>
  IN baseUrl \o DocumentsSuffix(pathUtil.projectId, pathUtil.databaseId)

\* FirestorePath.getCollectionPath
getCollectionPath(pathUtil, path) ==
  getBasePath(pathUtil) \o <<"/">> \o CleanPath(path)

\* FirestorePath.getDocumentPath
getDocumentPath(pathUtil, collectionPath, documentId) ==
  getBasePath(pathUtil) \o <<"/">> \o CleanPath(collectionPath) \o <<"/">> \o documentId

\* utils/path.ts getFirestoreBasePath(projectId, databaseId, config)
getFirestoreBasePath(projectId, databaseId, config) ==
  IF Truthy(config.useEmulator)
    THEN <<"http://">> \o ToStr(Or(config.emulatorHost, Str(S("127.0.0.1")))) \o <<":">>
           \o ToStr(Or(config.emulatorPort, Num(8080))) \o <<"/", "v1">>
           \o DocumentsSuffix(projectId, Or(databaseId, Str(S("(default)"))))
    ELSE <<"https://firestore.googleapis.com", "/", "v1">>
           \o DocumentsSuffix(projectId, Or(databaseId, Str(S("(default)"))))

\* FirestorePath.getQueryPath(path): collectionId and parentPath (Undefined for
\* a single segment)
getQueryPath(pathUtil, path) ==
  LET segments == Split(CleanPath(path), "/") IN
  IF Len(segments) = 1
    THEN [url |-> getBasePath(pathUtil) \o <<":runQuery">>,
          collectionId |-> segments[1], parentPath |-> Undefined]
    ELSE [url |-> getBasePath(pathUtil) \o <<":runQuery">>,
          collectionId |-> segments[Len(segments)],
          parentPath |-> Str(Join(SubSeq(segments, 1, Len(segments) - 1), "/"))]

\* s.replace(/\/documents$/, '')
DropDocuments(s) ==
  IF Len(s) >= 2 /\ s[Len(s)] = "documents" /\ s[Len(s) - 1] = "/"
    THEN SubSeq(s, 1, Len(s) - 2) ELSE s

\* FirestorePath.getRunQueryPath(collectionPath)
getRunQueryPath(pathUtil, collectionPath) ==
  LET q == getQueryPath(pathUtil, collectionPath) IN
  IF Truthy(q.parentPath)
    THEN DropDocuments(getBasePath(pathUtil)) \o <<"/", "documents", "/">>
           \o q.parentPath.s \o <<":runQuery">>
    ELSE getBasePath(pathUtil) \o <<":runQuery">>

(***************************************************************************)
(* The document store behind fetch: one HTTP exchange.  The store keeps    *)
(* wire documents by resource name; a PATCH without an update mask         *)
(* replaces the whole document and creates it when it is missing.          *)
(***************************************************************************)
IsPrefixOf(p, q) == Len(p) <= Len(q) /\ SubSeq(q, 1, Len(p)) = p

RECURSIVE IndexOf(_, _, _)
IndexOf(s, a, i) ==
  IF i > Len(s) THEN 0 ELSE IF s[i] = a THEN i ELSE IndexOf(s, a, i + 1)

\* "projects/P/databases/D/documents/..." of a request URL
ResourceName(url) == SubSeq(url, IndexOf(url, "projects", 1), Len(url))

RECURSIVE SeqOf(_)
\* the elements of a set in the order the store returns them
SeqOf(set) ==
  IF set = {} THEN <<>>
  ELSE LET e == CHOOSE e \in set : TRUE IN <<e>> \o SeqOf(set \ {e})

\* whether the wire value v satisfies `op operand`; the operators the model's
\* queries use (an operand of IN or NOT_IN that is no array matches nothing)
Satisfies(v, op, operand) ==
  CASE op = "EQUAL"     -> v = operand
    [] op = "NOT_EQUAL" -> v # operand
    [] op = "IN"        ->
         /\ "arrayValue" \in DOMAIN operand
         /\ \E i \in 1..Len(operand.arrayValue.values) : operand.arrayValue.values[i] = v
    [] op = "NOT_IN"    ->
         /\ "arrayValue" \in DOMAIN operand
         /\ \A i \in 1..Len(operand.arrayValue.values) : operand.arrayValue.values[i] # v
    [] OTHER            -> FALSE

Matches(doc, filter) ==
  /\ filter.fieldFilter.field.fieldPath \in DOMAIN doc.fields
  /\ Satisfies(doc.fields[filter.fieldFilter.field.fieldPath],
               filter.fieldFilter.op, filter.fieldFilter.value)

MatchesWhere(doc, query) ==
  IF "where" \notin DOMAIN query THEN TRUE
  ELSE IF "fieldFilter" \in DOMAIN query.where THEN Matches(doc, query.where)
  ELSE \A i \in 1..Len(query.where.compositeFilter.filters) :
         Matches(doc, query.where.compositeFilter.filters[i])

\* the answer to a runQuery: one slot per matching document of the collection
\* under the parent the URL names (at any depth with allDescendants), in the
\* store's own order whatever orderBy asks, cut by offset and limit; a single
\* slot without a document when the page is empty
RunQuery(store, req) ==
  LET parent == SubSeq(ResourceName(req.url), 1, Len(ResourceName(req.url)) - 1)
      query  == req.body.structuredQuery
      from   == query.from[1]
      InCollection(name) ==
        /\ IsPrefixOf(parent \o <<"/">>, name)
        /\ LET rest == Split(SubSeq(name, Len(parent) + 2, Len(name)), "/")
           IN /\ Len(rest) >= 2
              /\ rest[Len(rest) - 1] = from.collectionId
              /\ (from.allDescendants \/ Len(rest) = 2)
      hits == {name \in DOMAIN store : InCollection(name) /\ MatchesWhere(store[name], query)}
      skip == IF "offset" \in DOMAIN query THEN query.offset ELSE 0
      upto == IF "limit" \in DOMAIN query /\ skip + query.limit < Cardinality(hits)
                THEN skip + query.limit ELSE Cardinality(hits)
      page == SubSeq(SeqOf(hits), skip + 1, upto)
  IN IF page = <<>> THEN <<[readTime |-> "t"]>>
     ELSE [i \in 1..Len(page) |-> [document |-> store[page[i]]]]

Response(store, status, body) == [store |-> store, status |-> status, body |-> body]

\* the text of the body the store sends with a refusal
ErrorBody(status) ==
  CASE status = 401 -> <<"unauthenticated">>
    [] status = 404 -> <<"document not found">>
    [] OTHER        -> <<"backend error">>

\* the reason phrase of a status line; an HTTP/2 exchange has none
ReasonPhrase(status) ==
  CASE status = 200 -> <<"OK">>
    [] status = 401 -> <<"Unauthorized">>
    [] status = 404 -> <<"Not Found">>
    [] OTHER        -> <<"Internal Server Error">>

StatusOk(status) == status >= 200 /\ status <= 299

\* the store's answer to req; outcome "fail" is a refusal of the exchange
\* (an HTTP 500), newId the identifier the store assigns on a POST
StoreRespond(store, req, outcome, newId) ==
  LET name == ResourceName(req.url) IN
  IF outcome = "fail" THEN Response(store, 500, ErrorBody(500))
  ELSE IF req.needsAuth /\ req.headers.Authorization # Str(<<"Bearer ", "access_token">>)
    THEN Response(store, 401, ErrorBody(401))
  ELSE CASE req.method = "GET" ->
              IF name \in DOMAIN store
                THEN Response(store, 200, store[name])
                ELSE Response(store, 404, ErrorBody(404))
         [] req.method = "POST" /\ req.url[Len(req.url)] = ":runQuery" ->
              Response(store, 200, RunQuery(store, req))
         [] req.method = "POST" ->
              LET created == [name |-> name \o <<"/">> \o newId, fields |-> req.body.fields]
              IN Response((created.name :> created) @@ store, 200, created)
         [] req.method = "PATCH" ->
              LET written == [name |-> name, fields |-> req.body.fields]
              IN Response((name :> written) @@ store, 200, written)
         [] req.method = "DELETE" ->
              Response([n \in DOMAIN store \ {name} |-> store[n]], 200, <<>>)

(***************************************************************************)
(* FirestoreClient (client.ts).  An operation runs on a machine m: the     *)
(* client's fields, the clock, the store, and the log of what the          *)
(* operation did.  The oracle o holds what the outside decides: how each   *)
(* exchange ends and how long it takes.                                    *)
(***************************************************************************)
Ok(m, v)    == [m |-> m, ok |-> TRUE, val |-> v, err |-> "none", msg |-> <<>>]
Throw(m, e) == [m |-> m, ok |-> FALSE, val |-> Undefined, err |-> e, msg |-> <<>>]

\* the document an operation returns, or the error raised on decoding it
Decoded(m, d) == IF d.ok THEN Ok(m, Obj(d.val)) ELSE Throw(m, d.err)

\* throw new Error(message) after a refused exchange
ThrowError(m, message) ==
  [m |-> m, ok |-> FALSE, val |-> Undefined, err |-> "api", msg |-> message]

\* `Firestore API error: ${response.statusText || response.status} - ${errorText}`
ApiError(response) ==
  ThrowError(response.m,
             <<"Firestore API error: ">>
               \o ToStr(Or(Str(response.statusText), Num(response.status)))
               \o <<" - ">> \o response.text)

\* `Firestore API error: ${response.status} - ${responseText}`
QueryApiError(response) ==
  ThrowError(response.m,
             <<"Firestore API error: ">> \o ToStr(Num(response.status))
               \o <<" - ">> \o response.text)

\* `Firestore API error: ${response.statusText}`
CreateApiError(response) ==
  ThrowError(response.m, <<"Firestore API error: ">> \o ToStr(Str(response.statusText)))

Required(config) ==
  IF ~Truthy(config.useEmulator)
    THEN {"projectId", "privateKey", "clientEmail"}
    ELSE {"projectId"}

\* a check that validates nothing
checkConfig_NoValidation(m) ==
  IF m.configChecked THEN Ok(m, Undefined)
  ELSE Ok([m EXCEPT !.configChecked = TRUE], Undefined)

checkConfig(m) ==
  IF m.configChecked THEN Ok(m, Undefined)
  ELSE LET missingParams == {param \in Required(m.config) : ~Truthy(m.config[param])}
       IN IF missingParams # {}
            THEN Throw(m, "config")
            ELSE Ok([m EXCEPT !.configChecked = TRUE], Undefined)

\* 50 minutes, in milliseconds
TokenTTL == 50 * 60 * 1000

\* utils/auth.ts getFirestoreToken: one request to the token endpoint, which
\* answers with an access token ("ok") or with a body that holds none
\* ("undef"), or the request throws ("throw").  In emulator mode it asks nobody.
getFirestoreToken(m, o) ==
  IF Truthy(m.config.useEmulator) THEN Ok(m, Str(S("firebase-emulator-auth-token")))
  ELSE LET i  == m.authReqs + 1
           m1 == [m EXCEPT !.authReqs = i, !.clock = @ + o.authDelay[i]]
       IN CASE o.auth[i] = "throw" -> Throw(m1, "auth")
            [] o.auth[i] = "undef" -> Ok(m1, Undefined)
            [] OTHER               -> Ok(m1, Str(S("access_token")))

\* what a getToken call read (the time, the cache), the requests to the token
\* endpoint made before and after it, and the cache it left
TokenCall(now, before, after, threw) ==
  [now |-> now, token |-> before.token, cached |-> Truthy(before.token),
   expiry |-> before.tokenExpiry,
   reqsBefore |-> before.authReqs, reqsAfter |-> after.authReqs, threw |-> threw,
   tokenAfter |-> after.token, expiryAfter |-> after.tokenExpiry]

\* getToken that dates the soft expiry from the time the token arrives
getToken_ExpiryAfterAwait(m, o) ==
  Bind(checkConfig(m), LAMBDA c :
    IF ~c.ok THEN c ELSE
    IF Truthy(c.m.config.useEmulator) THEN Ok(c.m, Str(S("emulator-fake-token"))) ELSE
    Bind(c.m.clock, LAMBDA now :
      IF ~Truthy(c.m.token) \/ now >= c.m.tokenExpiry
        THEN Bind(getFirestoreToken(c.m, o), LAMBDA t :
               IF ~t.ok
                 THEN Throw([t.m EXCEPT !.tcalls = Append(@, TokenCall(now, c.m, t.m, TRUE))],
                            t.err)
                 ELSE Bind([t.m EXCEPT !.token = t.val, !.tokenExpiry = t.m.clock + TokenTTL],
                           LAMBDA set :
                             Ok([set EXCEPT !.tcalls =
                                   Append(@, TokenCall(now, c.m, set, FALSE))],
                                t.val)))
        ELSE Ok([c.m EXCEPT !.tcalls = Append(@, TokenCall(now, c.m, c.m, FALSE))],
                c.m.token)))

\* getToken without the emulator branch
getToken_NoEmulatorBranch(m, o) ==
  Bind(checkConfig(m), LAMBDA c :
    IF ~c.ok THEN c ELSE
    Bind(c.m.clock, LAMBDA now :
      IF ~Truthy(c.m.token) \/ now >= c.m.tokenExpiry
        THEN Bind(getFirestoreToken(c.m, o), LAMBDA t :
               IF ~t.ok
                 THEN Throw([t.m EXCEPT !.tcalls = Append(@, TokenCall(now, c.m, t.m, TRUE))],
                            t.err)
                 ELSE Bind([t.m EXCEPT !.token = t.val, !.tokenExpiry = now + TokenTTL],
                           LAMBDA set :
                             Ok([set EXCEPT !.tcalls =
                                   Append(@, TokenCall(now, c.m, set, FALSE))],
                                t.val)))
        ELSE Ok([c.m EXCEPT !.tcalls = Append(@, TokenCall(now, c.m, c.m, FALSE))],
                c.m.token)))

getToken(m, o) ==
  Bind(checkConfig(m), LAMBDA c :
    IF ~c.ok THEN c ELSE
    IF Truthy(c.m.config.useEmulator) THEN Ok(c.m, Str(S("emulator-fake-token"))) ELSE
    Bind(c.m.clock, LAMBDA now :
      IF ~Truthy(c.m.token) \/ now >= c.m.tokenExpiry
        THEN Bind(getFirestoreToken(c.m, o), LAMBDA t :
               IF ~t.ok
                 THEN Throw([t.m EXCEPT !.tcalls = Append(@, TokenCall(now, c.m, t.m, TRUE))],
                            t.err)
                 ELSE Bind([t.m EXCEPT !.token = t.val, !.tokenExpiry = now + TokenTTL],
                           LAMBDA set :
                             Ok([set EXCEPT !.tcalls =
                                   Append(@, TokenCall(now, c.m, set, FALSE))],
                                t.val)))
        ELSE Ok([c.m EXCEPT !.tcalls = Append(@, TokenCall(now, c.m, c.m, FALSE))],
                c.m.token)))

(***************************************************************************)
(* getToken as the two steps its await splits it into: the part that runs  *)
(* up to the request to the token endpoint, and the part that runs when    *)
(* the request has been answered.  Other calls run between the two.        *)
(***************************************************************************)
\* utils/auth.ts createJWT: exp is iat + 3600 seconds; in milliseconds
TokenLifetime == 3600 * 1000

\* the access token a request answers with, written so that the request it
\* came from can be read off it: the caller and the iat of the request's JWT
IssuedToken(p, iat) == Str(<<"access_token", ToString(p), ToString(iat)>>)

\* getToken up to its await: "throw" (configuration), "return" (the
\* emulator's token, or the cached token), or "await" (a request to the
\* token endpoint has been started at time now)
getToken_start(m) ==
  Bind(checkConfig(m), LAMBDA c :
    IF ~c.ok THEN [kind |-> "throw", r |-> c, now |-> m.clock] ELSE
    IF Truthy(c.m.config.useEmulator)
      THEN [kind |-> "return", r |-> Ok(c.m, Str(S("emulator-fake-token"))),
            now |-> m.clock] ELSE
    Bind(c.m.clock, LAMBDA now :
      IF ~Truthy(c.m.token) \/ now >= c.m.tokenExpiry
        THEN [kind |-> "await", r |-> Ok(c.m, Undefined), now |-> now]
        ELSE [kind |-> "return", r |-> Ok(c.m, c.m.token), now |-> now]))

\* getToken after its await that leaves a cache that is not stale alone
getToken_resume_KeepsFresh(m, now, t) ==
  IF Truthy(m.token) /\ m.clock < m.tokenExpiry
    THEN Ok(m, m.token)
    ELSE Bind([m EXCEPT !.token = t, !.tokenExpiry = now + TokenTTL], LAMBDA set :
           Ok(set, set.token))

\* getToken after its await that dates the soft expiry from the answer
getToken_resume_ExpiryFromAnswer(m, now, t) ==
  Bind([m EXCEPT !.token = t, !.tokenExpiry = m.clock + TokenTTL], LAMBDA set :
    Ok(set, set.token))

\* getToken from its await on, the request answered with t: the two
\* assignments and the return run without another call in between
getToken_resume(m, now, t) ==
  Bind([m EXCEPT !.token = t, !.tokenExpiry = now + TokenTTL], LAMBDA set :
    Ok(set, set.token))

\* `Bearer ${token}`
Bearer(token) == Str(<<"Bearer ">> \o ToStr(token))

prepareHeaders(m, o) ==
  IF ~Truthy(m.config.useEmulator)
    THEN Bind(getToken(m, o), LAMBDA t :
           IF ~t.ok THEN t ELSE Ok(t.m, [Authorization |-> Bearer(t.val)]))
    ELSE Ok(m, [Authorization |-> Undefined])

\* one fetch against the document store
fetch(m, o, method, url, headers, body) ==
  Bind(StoreRespond(m.store,
                    [method |-> method, url |-> url, headers |-> headers, body |-> body,
                     needsAuth |-> ~Truthy(m.config.useEmulator)],
                    o.net[Len(m.reqs) + 1], o.newId),
       LAMBDA resp :
         [m |-> [m EXCEPT !.store = resp.store,
                          !.clock = @ + o.netDelay[Len(m.reqs) + 1],
                          !.reqs  = Append(@, [method |-> method, url |-> url,
                                               auth |-> headers.Authorization,
                                               body |-> body,
                                               status |-> resp.status,
                                               statusText |->
                                                 IF o.http2 THEN <<>>
                                                 ELSE ReasonPhrase(resp.status),
                                               resp |-> resp.body])],
          status     |-> resp.status,
          statusText |-> IF o.http2 THEN <<>> ELSE ReasonPhrase(resp.status),
          text       |-> IF StatusOk(resp.status) THEN <<"(json)">> ELSE resp.body,
          body       |-> resp.body])

pathUtil(m) == FirestorePath(m.config)

Client_add(m, o, collectionName, data) ==
  Bind(checkConfig(m), LAMBDA c :
    IF ~c.ok THEN c ELSE
    Bind(prepareHeaders(c.m, o), LAMBDA h :
      IF ~h.ok THEN h ELSE
      Bind(fetch(h.m, o, "POST", getCollectionPath(pathUtil(c.m), collectionName),
                 h.val, convertToFirestoreDocument(data)),
           LAMBDA response :
             IF ~StatusOk(response.status) THEN ApiError(response)
             ELSE Decoded(response.m, convertFromFirestoreDocument(response.body)))))

\* get that takes a 404 for a failure like any other status
Client_get_Throws404(m, o, collectionName, documentId) ==
  Bind(checkConfig(m), LAMBDA c :
    IF ~c.ok THEN c ELSE
    Bind(prepareHeaders(c.m, o), LAMBDA h :
      IF ~h.ok THEN h ELSE
      Bind(fetch(h.m, o, "GET",
                 getDocumentPath(pathUtil(c.m), collectionName, documentId), h.val, <<>>),
           LAMBDA response :
             IF ~StatusOk(response.status) THEN ApiError(response)
             ELSE Decoded(response.m, convertFromFirestoreDocument(response.body)))))

\* get that asks the store a second time when its request was refused
Client_get_RetriesOnce(m, o, collectionName, documentId) ==
  Bind(checkConfig(m), LAMBDA c :
    IF ~c.ok THEN c ELSE
    Bind(prepareHeaders(c.m, o), LAMBDA h :
      IF ~h.ok THEN h ELSE
      Bind(fetch(h.m, o, "GET",
                 getDocumentPath(pathUtil(c.m), collectionName, documentId), h.val, <<>>),
           LAMBDA first :
             Bind(IF StatusOk(first.status) \/ first.status = 404 THEN first
                  ELSE fetch(first.m, o, "GET",
                             getDocumentPath(pathUtil(c.m), collectionName, documentId),
                             h.val, <<>>),
                  LAMBDA response :
                    IF response.status = 404 THEN Ok(response.m, Null)
                    ELSE IF ~StatusOk(response.status) THEN ApiError(response)
                    ELSE Decoded(response.m, convertFromFirestoreDocument(response.body))))))

Client_get(m, o, collectionName, documentId) ==
  Bind(checkConfig(m), LAMBDA c :
    IF ~c.ok THEN c ELSE
    Bind(prepareHeaders(c.m, o), LAMBDA h :
      IF ~h.ok THEN h ELSE
      Bind(fetch(h.m, o, "GET",
                 getDocumentPath(pathUtil(c.m), collectionName, documentId), h.val, <<>>),
           LAMBDA response :
             IF response.status = 404 THEN Ok(response.m, Null)
             ELSE IF ~StatusOk(response.status) THEN ApiError(response)
             ELSE Decoded(response.m, convertFromFirestoreDocument(response.body)))))

RECURSIVE SetPath(_, _, _)
\* the walk of the dot-notation loop: from current, follow parts and set the
\* last one to val, replacing every step that is no object by a new object
SetPath(current, parts, val) ==
  IF Len(parts) = 1 THEN SetProp(current, parts[1], val)
  ELSE LET part == parts[1]
           old  == GetProp(current, part)
           next == IF ~Truthy(old) \/ TypeOf(old) # "object" THEN EmptyObj ELSE old
       IN SetProp(current, part, SetPath(next, Tail(parts), val))

RECURSIVE ApplyDots(_, _, _)
\* dotNotationKeys.forEach: the keys are taken in some order; the result does
\* not depend on it unless one dotted key is a prefix of another
ApplyDots(result, keys, data) ==
  IF keys = {} THEN result
  ELSE LET path == CHOOSE key \in keys : TRUE
       IN ApplyDots(SetPath(result, Split(path, "."), data[path]), keys \ {path}, data)

\* the data update() writes for an existing document
MergeForUpdate(existingDoc, data) ==
  LET dotNotationKeys == {key \in DOMAIN data : Includes(key, ".")}
      plain  == [key \in DOMAIN data \ dotNotationKeys |-> data[key]]
  IN IF dotNotationKeys # {}
       THEN ApplyDots(Obj(Spread(existingDoc, plain)), dotNotationKeys, data).m
       ELSE Spread(existingDoc, data)

\* the first part of update that takes a refused GET for a missing document
Update_read_HidesRefusal(m, o, collectionName, documentId) ==
  Bind(checkConfig(m), LAMBDA c :
    IF ~c.ok THEN c ELSE
    Bind(Client_get(c.m, o, collectionName, documentId), LAMBDA g :
      IF g.ok THEN g ELSE Ok(g.m, Null)))

\* update up to the answer to its GET: the existing document, or null
Update_read(m, o, collectionName, documentId) ==
  Bind(checkConfig(m), LAMBDA c :
    IF ~c.ok THEN c ELSE Client_get(c.m, o, collectionName, documentId))

\* update that merges into the document the store holds when the PATCH arrives
Update_write_MergesAtStore(m, o, collectionName, documentId, data, existingDoc) ==
  Bind(prepareHeaders(m, o), LAMBDA h :
    IF ~h.ok THEN h ELSE
    Bind(ResourceName(getDocumentPath(pathUtil(m), collectionName, documentId)),
         LAMBDA name :
           Bind(fetch(h.m, o, "PATCH",
                      getDocumentPath(pathUtil(m), collectionName, documentId), h.val,
                      convertToFirestoreDocument(
                        IF name \in DOMAIN m.store
                          THEN MergeForUpdate(
                                 convertFromFirestoreDocument(m.store[name]).val, data)
                          ELSE data)),
                LAMBDA response :
                  IF ~StatusOk(response.status) THEN ApiError(response)
                  ELSE Decoded(response.m, convertFromFirestoreDocument(response.body)))))

\* update that applies dotted keys also when it found no document
Update_write_AlwaysMerges(m, o, collectionName, documentId, data, existingDoc) ==
  Bind(prepareHeaders(m, o), LAMBDA h :
    IF ~h.ok THEN h ELSE
    Bind(fetch(h.m, o, "PATCH",
               getDocumentPath(pathUtil(m), collectionName, documentId), h.val,
               convertToFirestoreDocument(IF Truthy(existingDoc)
                                            THEN MergeForUpdate(existingDoc.m, data)
                                            ELSE MergeForUpdate(EmptyMap, data))),
         LAMBDA response :
           IF ~StatusOk(response.status) THEN ApiError(response)
           ELSE Decoded(response.m, convertFromFirestoreDocument(response.body))))

\* update whose PATCH writes only where a document is
Update_write_OnlyExisting(m, o, collectionName, documentId, data, existingDoc) ==
  IF ResourceName(getDocumentPath(pathUtil(m), collectionName, documentId))
       \notin DOMAIN m.store
    THEN ThrowError(m, <<"Firestore API error: ", "Not Found">>)
    ELSE Bind(prepareHeaders(m, o), LAMBDA h :
           IF ~h.ok THEN h ELSE
           Bind(fetch(h.m, o, "PATCH",
                      getDocumentPath(pathUtil(m), collectionName, documentId), h.val,
                      convertToFirestoreDocument(IF Truthy(existingDoc)
                                                   THEN MergeForUpdate(existingDoc.m, data)
                                                   ELSE data)),
                LAMBDA response :
                  IF ~StatusOk(response.status) THEN ApiError(response)
                  ELSE Decoded(response.m, convertFromFirestoreDocument(response.body))))

\* update from the merge on: the PATCH of the merged document
Update_write(m, o, collectionName, documentId, data, existingDoc) ==
  Bind(prepareHeaders(m, o), LAMBDA h :
    IF ~h.ok THEN h ELSE
    Bind(fetch(h.m, o, "PATCH",
               getDocumentPath(pathUtil(m), collectionName, documentId), h.val,
               convertToFirestoreDocument(IF Truthy(existingDoc)
                                            THEN MergeForUpdate(existingDoc.m, data)
                                            ELSE data)),
         LAMBDA response :
           IF ~StatusOk(response.status) THEN ApiError(response)
           ELSE Decoded(response.m, convertFromFirestoreDocument(response.body))))

Client_update(m, o, collectionName, documentId, data) ==
  Bind(Update_read(m, o, collectionName, documentId), LAMBDA g :
    IF ~g.ok THEN g
    ELSE Update_write(g.m, o, collectionName, documentId, data, g.val))

\* delete that does not look at the response status
Client_delete_IgnoresStatus(m, o, collectionName, documentId) ==
  Bind(checkConfig(m), LAMBDA c :
    IF ~c.ok THEN c ELSE
    Bind(prepareHeaders(c.m, o), LAMBDA h :
      IF ~h.ok THEN h ELSE
      Bind(fetch(h.m, o, "DELETE",
                 getDocumentPath(pathUtil(c.m), collectionName, documentId), h.val, <<>>),
           LAMBDA response : Ok(response.m, Bool(TRUE)))))

Client_delete(m, o, collectionName, documentId) ==
  Bind(checkConfig(m), LAMBDA c :
    IF ~c.ok THEN c ELSE
    Bind(IF ~Truthy(c.m.config.useEmulator)
           THEN Bind(getToken(c.m, o), LAMBDA t :
                  IF ~t.ok THEN t ELSE Ok(t.m, [Authorization |-> Bearer(t.val)]))
           ELSE Ok(c.m, [Authorization |-> Undefined]),
         LAMBDA h :
      IF ~h.ok THEN h ELSE
      Bind(fetch(h.m, o, "DELETE",
                 getDocumentPath(pathUtil(c.m), collectionName, documentId), h.val, <<>>),
           LAMBDA response :
             IF ~StatusOk(response.status) THEN ApiError(response)
             ELSE Ok(response.m, Bool(TRUE)))))

Client_createWithId(m, o, collectionName, documentId, data) ==
  Bind(checkConfig(m), LAMBDA c :
    IF ~c.ok THEN c ELSE
    Bind(getToken(c.m, o), LAMBDA t :
      IF ~t.ok THEN t ELSE
      Bind(fetch(t.m, o, "PATCH",
                 getFirestoreBasePath(c.m.config.projectId, c.m.config.databaseId, c.m.config)
                   \o <<"/">> \o collectionName \o <<"/">> \o documentId,
                 [Authorization |-> Bearer(t.val)], convertToFirestoreDocument(data)),
           LAMBDA response :
             IF ~StatusOk(response.status) THEN CreateApiError(response)
             ELSE Decoded(response.m, convertFromFirestoreDocument(response.body)))))

\* the opMap literal of query()
opMap ==
  [op \in {"==", "!=", "<", "<=", ">", ">=", "array-contains", "in",
           "array-contains-any", "not-in"} |->
     CASE op = "==" -> "EQUAL"
       [] op = "!=" -> "NOT_EQUAL"
       [] op = "<"  -> "LESS_THAN"
       [] op = "<=" -> "LESS_THAN_OR_EQUAL"
       [] op = ">"  -> "GREATER_THAN"
       [] op = ">=" -> "GREATER_THAN_OR_EQUAL"
       [] op = "array-contains" -> "ARRAY_CONTAINS"
       [] op = "in" -> "IN"
       [] op = "array-contains-any" -> "ARRAY_CONTAINS_ANY"
       [] op = "not-in" -> "NOT_IN"]

\* the names every object literal inherits from Object.prototype: opMap[name]
\* is a function there, and JSON.stringify leaves a function-valued op out
ObjectPrototypeNames ==
  {"constructor", "toString", "valueOf", "hasOwnProperty", "isPrototypeOf",
   "propertyIsEnumerable", "toLocaleString"}

\* opMap[filter.op] || filter.op, as it reaches the request body
WireOp(op) ==
  IF op \in DOMAIN opMap THEN opMap[op]
  ELSE IF op \in ObjectPrototypeNames THEN "(absent)"
  ELSE op

FieldFilter(filter) ==
  [fieldFilter |-> [field |-> [fieldPath |-> filter.field],
                    op    |-> WireOp(filter.op),
                    value |-> convertToFirestoreValue(filter.value)]]

\* StructuredQuery that wraps a single filter in a compositeFilter as well
StructuredQuery_AlwaysComposite(collectionId, options, allDescendants) ==
  LET from == [from |-> <<[collectionId |-> collectionId, allDescendants |-> allDescendants]>>]
      where == IF Len(options.where) = 0 THEN <<>>
               ELSE [where |->
                       [compositeFilter |->
                          [op |-> "AND",
                           filters |-> [i \in 1..Len(options.where) |->
                                          FieldFilter(options.where[i])]]]]
  IN from @@ where

\* the structuredQuery of query(): options.where is a sequence of filters,
\* orderBy / orderDirection / limit / offset are JavaScript values
StructuredQuery(collectionId, options, allDescendants) ==
  LET from == [from |-> <<[collectionId |-> collectionId, allDescendants |-> allDescendants]>>]
      where == IF Len(options.where) = 0 THEN <<>>
               ELSE IF Len(options.where) = 1
                 THEN [where |-> FieldFilter(options.where[1])]
                 ELSE [where |->
                         [compositeFilter |->
                            [op |-> "AND",
                             filters |-> [i \in 1..Len(options.where) |->
                                            FieldFilter(options.where[i])]]]]
      orderBy == IF Truthy(options.orderBy)
                   THEN [orderBy |-> <<[field |-> [fieldPath |-> options.orderBy.s],
                                        direction |-> Or(options.orderDirection,
                                                         Str(S("ASCENDING"))).s]>>]
                   ELSE <<>>
      limit  == IF Truthy(options.limit) THEN [limit |-> options.limit.n] ELSE <<>>
      offset == IF Truthy(options.offset) THEN [offset |-> options.offset.n] ELSE <<>>
  IN from @@ where @@ orderBy @@ limit @@ offset

Client_query(m, o, collectionPath, options, allDescendants) ==
  Bind(checkConfig(m), LAMBDA c :
    IF ~c.ok THEN c ELSE
    Bind(Split(collectionPath, "/"), LAMBDA segments :
      Bind(prepareHeaders(c.m, o), LAMBDA h :
        IF ~h.ok THEN h ELSE
        Bind(fetch(h.m, o, "POST", getRunQueryPath(pathUtil(c.m), collectionPath), h.val,
                   [structuredQuery |->
                      StructuredQuery(segments[Len(segments)], options, allDescendants)]),
             LAMBDA response :
               IF ~StatusOk(response.status) THEN QueryApiError(response)
               ELSE Bind(SelectSeq(response.body, LAMBDA item : "document" \in DOMAIN item),
                         LAMBDA kept :
                           IF \E i \in 1..Len(kept) :
                                ~convertFromFirestoreDocument(kept[i].document).ok
                             THEN Throw(response.m, "TypeError")
                             ELSE Ok(response.m,
                                     Arr([i \in 1..Len(kept) |->
                                            Obj(convertFromFirestoreDocument(
                                                  kept[i].document).val)],
                                         EmptyMap)))))))

(***************************************************************************)
(* DocumentReference and DocumentSnapshot (client.ts)                      *)
(***************************************************************************)
DocumentReference(collectionPath, docId) ==
  [k |-> "DocumentReference", collectionPath |-> collectionPath, docId |-> docId]

DocumentSnapshot(id, data) == [k |-> "DocumentSnapshot", _id |-> id, _data |-> data]

Snapshot_id(snap)     == snap._id
Snapshot_exists(snap) == snap._data # Null
Snapshot_data(snap)   == IF Truthy(snap._data) THEN snap._data ELSE Undefined

WriteResult(m) == [k |-> "WriteResult", writeTime |-> m.clock]

\* doc() that rejects only a path without a separator
Client_doc_NeedsSlash(m, path) ==
  LET parts == Split(path, "/") IN
  IF Len(parts) < 2 THEN Throw(m, "path")
  ELSE Ok(m, DocumentReference(Join(SubSeq(parts, 1, Len(parts) - 1), "/"),
                               parts[Len(parts)]))

\* FirestoreClient.doc(path)
Client_doc(m, path) ==
  LET parts == Split(path, "/") IN
  IF Len(parts) % 2 # 0 THEN Throw(m, "path")
  ELSE Ok(m, DocumentReference(Join(SubSeq(parts, 1, Len(parts) - 1), "/"),
                               parts[Len(parts)]))

DocRef_get(m, o, ref) ==
  Bind(Client_get(m, o, ref.collectionPath, ref.docId), LAMBDA g :
    IF ~g.ok THEN g ELSE Ok(g.m, DocumentSnapshot(ref.docId, g.val)))

DocRef_set(m, o, ref, data, merge) ==
  Bind(Client_get(m, o, ref.collectionPath, ref.docId), LAMBDA g :
    IF ~g.ok THEN g
    ELSE IF Truthy(g.val)
      THEN Bind(Client_update(g.m, o, ref.collectionPath, ref.docId,
                              IF merge THEN Spread(g.val.m, data) ELSE data),
                LAMBDA u : IF ~u.ok THEN u ELSE Ok(u.m, WriteResult(u.m)))
      ELSE Bind(Client_createWithId(g.m, o, ref.collectionPath, ref.docId, data),
                LAMBDA cr : IF ~cr.ok THEN cr ELSE Ok(cr.m, WriteResult(cr.m))))

DocRef_update(m, o, ref, data) ==
  Bind(Client_update(m, o, ref.collectionPath, ref.docId, data), LAMBDA u :
    IF ~u.ok THEN u ELSE Ok(u.m, WriteResult(u.m)))

DocRef_delete(m, o, ref) ==
  Bind(Client_delete(m, o, ref.collectionPath, ref.docId), LAMBDA d :
    IF ~d.ok THEN d ELSE Ok(d.m, WriteResult(d.m)))

(***************************************************************************)
(* CollectionReference, CollectionGroup and Query (client.ts).  Objects    *)
(* live in a heap h: h.objs are the references and queries in creation     *)
(* order, h.arrays the `where` arrays; _queryConstraints.where holds the   *)
(* index of an array, as a JavaScript property holds a reference.          *)
(***************************************************************************)
\* { where: <array a> }
NewConstraints(a) ==
  [where |-> a, orderBy |-> Undefined, orderDirection |-> Undefined,
   limit |-> Undefined, offset |-> Undefined]

CollectionReference(path, a) ==
  [kind |-> "CollectionReference", path |-> path, allDescendants |-> FALSE,
   _queryConstraints |-> NewConstraints(a)]

CollectionGroup(path, a) ==
  [kind |-> "CollectionGroup", path |-> path, allDescendants |-> TRUE,
   _queryConstraints |-> NewConstraints(a)]

Query(collectionPath, constraints, allDescendants) ==
  [kind |-> "Query", path |-> collectionPath, allDescendants |-> allDescendants,
   _queryConstraints |-> constraints]

\* client.collection(path): the constructor makes a new empty `where` array
Client_collection(h, path) ==
  [objs   |-> Append(h.objs, CollectionReference(path, Len(h.arrays) + 1)),
   arrays |-> Append(h.arrays, <<>>)]

Client_collectionGroup(h, path) ==
  [objs   |-> Append(h.objs, CollectionGroup(path, Len(h.arrays) + 1)),
   arrays |-> Append(h.arrays, <<>>)]

\* the switch of where(): the same table as opMap, any other string unchanged
FirestoreOp(opStr) == IF opStr \in DOMAIN opMap THEN opMap[opStr] ELSE opStr

\* {...this._queryConstraints}: a new object whose properties hold the same
\* values, the reference to the `where` array among them
SpreadConstraints(c) ==
  [where |-> c.where, orderBy |-> c.orderBy, orderDirection |-> c.orderDirection,
   limit |-> c.limit, offset |-> c.offset]

\* receiver.where(fieldPath, opStr, value), for the three kinds of receiver
Ref_where(h, i, fieldPath, opStr, value) ==
  LET query == Query(h.objs[i].path, SpreadConstraints(h.objs[i]._queryConstraints),
                     h.objs[i].allDescendants)
  IN [objs   |-> Append(h.objs, query),
      arrays |-> [h.arrays EXCEPT ![query._queryConstraints.where] =
                    Append(@, [field |-> fieldPath, op |-> FirestoreOp(opStr),
                               value |-> value])]]

Ref_orderBy(h, i, fieldPath, directionStr) ==
  LET c == SpreadConstraints(h.objs[i]._queryConstraints)
      query == Query(h.objs[i].path,
                     [c EXCEPT !.orderBy = Str(fieldPath),
                               !.orderDirection = IF directionStr = "asc"
                                                    THEN Str(S("ASCENDING"))
                                                    ELSE Str(S("DESCENDING"))],
                     h.objs[i].allDescendants)
  IN [objs |-> Append(h.objs, query), arrays |-> h.arrays]

\* limit that makes its query without the receiver's allDescendants
Ref_limit_DropsFlag(h, i, limit) ==
  LET c == SpreadConstraints(h.objs[i]._queryConstraints)
  IN [objs |-> Append(h.objs, Query(h.objs[i].path, [c EXCEPT !.limit = Num(limit)], FALSE)),
      arrays |-> h.arrays]

Ref_limit(h, i, limit) ==
  LET c == SpreadConstraints(h.objs[i]._queryConstraints)
  IN [objs |-> Append(h.objs, Query(h.objs[i].path, [c EXCEPT !.limit = Num(limit)],
                                    h.objs[i].allDescendants)),
      arrays |-> h.arrays]

Ref_offset(h, i, offset) ==
  LET c == SpreadConstraints(h.objs[i]._queryConstraints)
  IN [objs |-> Append(h.objs, Query(h.objs[i].path, [c EXCEPT !.offset = Num(offset)],
                                    h.objs[i].allDescendants)),
      arrays |-> h.arrays]

\* the constraints of object i as query() reads them
Constraints(h, i) ==
  [h.objs[i]._queryConstraints EXCEPT !.where = h.arrays[@]]

\* new QuerySnapshot(results): each document's id apart from its data
QuerySnapshot(results) ==
  [k |-> "QuerySnapshot",
   _docs |-> [j \in 1..Len(results.a) |->
                DocumentSnapshot(GetProp(results.a[j], IdKey),
                                 Obj([key \in DOMAIN results.a[j].m \ {IdKey} |->
                                        results.a[j].m[key]]))]]

\* get() of a CollectionReference, a CollectionGroup or a Query
Ref_get(m, o, h, i) ==
  Bind(Client_query(m, o, h.objs[i].path, Constraints(h, i), h.objs[i].allDescendants),
       LAMBDA q : IF ~q.ok THEN q ELSE Ok(q.m, QuerySnapshot(q.val)))

(***************************************************************************)
(* The client and the store as a state machine: one action per operation,  *)
(* each running the whole handler against the store (a single caller, one  *)
(* operation at a time).                                                   *)
(***************************************************************************)
VARIABLES
  config,         \* FirestoreClient.config
  configChecked,  \* FirestoreClient.configChecked
  token,          \* FirestoreClient.token
  tokenExpiry,    \* FirestoreClient.tokenExpiry
  clock,          \* Date.now()
  store,          \* the documents of the store, by resource name
  last,           \* the last operation: its call, its outcome and what it did
  known,          \* history: per document id, what the caller's last successful
                  \* write returned; no entry before a write and after a delete
  objs,           \* the references and queries the caller holds, in creation order
  arrays,         \* the `where` arrays those objects refer to
  expect,         \* history: per object, the filters its receiver had at the call
                  \* that made it, followed by the filter of that call
  inflight        \* per concurrent caller, its update call: where it stands
                  \* (idle, read, done), what it read and how it ended

vars == <<config, configChecked, token, tokenExpiry, clock, store, last, known,
          objs, arrays, expect, inflight>>

K(a) == S(a)
Coll == S("c")
DocIds == {S("d1"), S("d2")}

\* a configuration that passes the check, for production and for the emulator
ProdConfig ==
  [projectId |-> Str(S("P")), privateKey |-> Str(S("KEY")), clientEmail |-> Str(S("E")),
   useEmulator |-> Undefined, databaseId |-> Undefined,
   emulatorHost |-> Undefined, emulatorPort |-> Undefined]

EmulatorConfig ==
  [projectId |-> Str(S("P")), privateKey |-> Str(<<>>), clientEmail |-> Str(<<>>),
   useEmulator |-> Bool(TRUE), databaseId |-> Undefined,
   emulatorHost |-> Undefined, emulatorPort |-> Undefined]

\* the caller's documents
ItemData    == (K("name") :> Str(S("Item"))) @@ (K("value") :> Num(1))
NewData     == (K("name") :> Str(S("New")))
DotData     == (<<"profile", ".", "age">> :> Num(31))
ProfileData == (K("profile") :> Obj((K("age") :> Num(30)) @@ (K("job") :> Str(S("Engineer")))))
IdData      == (K("id") :> Str(S("custom")))
ArrayData   == (K("profile") :> Arr(<<Num(1)>>, EmptyMap))

DataSet == {ItemData, NewData, DotData, ProfileData}

\* the writes at a chosen id: every document of DataSet at d1 (d2 is written
\* by add only)
Targets == {S("d1")} \X DataSet

Calls == {1, 2, 3}

\* what the outside decides during one operation: fails are the exchanges
\* with the store that may be refused (0: none; an operation stops at its
\* first refused exchange), AuthOutcomes and Delays what the first n exchanges
\* with each side may do and take (the later ones succeed at once)
TimedOracles(fails, AuthOutcomes, Delays, Ids, n) ==
  { [net       |-> [j \in Calls |-> IF j = f THEN "fail" ELSE "ok"],
     auth      |-> [j \in Calls |-> IF j <= n THEN a[j] ELSE "ok"],
     authDelay |-> [j \in Calls |-> IF j <= n THEN ad[j] ELSE 0],
     netDelay  |-> [j \in Calls |-> IF j <= n THEN nd[j] ELSE 0],
     newId     |-> id,
     http2     |-> FALSE] :
      f \in fails, a \in [1..n -> AuthOutcomes],
      ad \in [1..n -> Delays], nd \in [1..n -> Delays], id \in Ids }

Oracles(fails, AuthOutcomes, Delays, Ids) ==
  TimedOracles(fails, AuthOutcomes, Delays, Ids, 1)

Heap == [objs |-> objs, arrays |-> arrays]

NoObjects == objs = <<>> /\ arrays = <<>> /\ expect = <<>>

\* the callers that may have an update in flight at the same time
Callers == {1, 2}

Idle == [pc |-> "idle", id |-> <<>>, data |-> EmptyMap, read |-> Undefined,
         reqs |-> <<>>, tcalls |-> <<>>, authReqs |-> 0,
         ok |-> TRUE, val |-> Undefined, peerPending |-> FALSE,
         now |-> 0, fromCache |-> FALSE, deleted |-> FALSE]

NoCalls == [p \in Callers |-> Idle]

Machine ==
  [config |-> config, configChecked |-> configChecked, token |-> token,
   tokenExpiry |-> tokenExpiry, clock |-> clock, store |-> store,
   reqs |-> <<>>, tcalls |-> <<>>, authReqs |-> 0]

NoCall == [op |-> "none", id |-> <<>>, data |-> EmptyMap, merge |-> FALSE,
           recv |-> 0, before |-> Undefined,
           ok |-> TRUE, val |-> Undefined, err |-> "none", msg |-> <<>>,
           reqs |-> <<>>, tcalls |-> <<>>, authReqs |-> 0,
           checkedBefore |-> FALSE, clockBefore |-> 0]

\* what the caller knows of its documents after the operation
Learn(op, id, r) ==
  IF ~r.ok THEN known
  ELSE CASE op = "add" -> (r.val.m[IdKey].s :> r.val) @@ known
         [] op \in {"update", "createWithId"} -> (id :> r.val) @@ known
         [] op = "ref.set" ->
              \* set returns a WriteResult only: the entry is what it left to read
              (id :> Obj(convertFromFirestoreDocument(r.m.reqs[Len(r.m.reqs)].resp).val)) @@ known
         [] op = "delete" -> [i \in DOMAIN known \ {id} |-> known[i]]
         [] OTHER -> known

\* the record of an operation: the call (recv is the receiver of a call on a
\* reference or query, with its constraints before the call), the outcome and
\* the requests it made
Record(op, id, data, merge, recv, r) ==
  [op |-> op, id |-> id, data |-> data, merge |-> merge,
   recv |-> recv, before |-> IF recv > 0 THEN Constraints(Heap, recv) ELSE Undefined,
   ok |-> r.ok, val |-> r.val, err |-> r.err, msg |-> r.msg,
   reqs |-> r.m.reqs, tcalls |-> r.m.tcalls, authReqs |-> r.m.authReqs,
   checkedBefore |-> configChecked, clockBefore |-> clock]

\* the effect of a network operation on the client and the store
Effect(r) ==
  /\ configChecked' = r.m.configChecked
  /\ token' = r.m.token
  /\ tokenExpiry' = r.m.tokenExpiry
  /\ clock' = r.m.clock
  /\ store' = r.m.store
  /\ UNCHANGED <<config, objs, arrays, expect>>

Finish(op, id, data, merge, r) ==
  /\ known' = Learn(op, id, r)
  /\ last' = Record(op, id, data, merge, 0, r)
  /\ inflight' = inflight
  /\ Effect(r)

\* the effect of a call that makes a reference or a query: h is the heap it
\* leaves, filters what the new object is to hold
Built(op, recv, h, filters) ==
  /\ objs' = h.objs
  /\ arrays' = h.arrays
  /\ expect' = Append(expect, filters)
  /\ last' = Record(op, <<>>, EmptyMap, FALSE, recv, Ok(Machine, Undefined))
  /\ UNCHANGED <<config, configChecked, token, tokenExpiry, clock, store, known, inflight>>

DocName(id) == ResourceName(getDocumentPath(pathUtil(Machine), Coll, id))

Add(Datas, Os) ==
  \E data \in Datas, o \in Os :
    /\ DocName(o.newId) \notin DOMAIN store
    /\ Finish("add", o.newId, data, FALSE, Client_add(Machine, o, Coll, data))

Get(Ids, Os) ==
  \E id \in Ids, o \in Os :
    Finish("get", id, EmptyMap, FALSE, Client_get(Machine, o, Coll, id))

Update(Ts, Os) ==
  \E t \in Ts, o \in Os :
    Finish("update", t[1], t[2], FALSE, Client_update(Machine, o, Coll, t[1], t[2]))

Delete(Ids, Os) ==
  \E id \in Ids, o \in Os :
    Finish("delete", id, EmptyMap, FALSE, Client_delete(Machine, o, Coll, id))

CreateWithId(Ts, Os) ==
  \E t \in Ts, o \in Os :
    Finish("createWithId", t[1], t[2], FALSE,
           Client_createWithId(Machine, o, Coll, t[1], t[2]))

RefGet(Ids, Os) ==
  \E id \in Ids, o \in Os :
    Finish("ref.get", id, EmptyMap, FALSE, DocRef_get(Machine, o, DocumentReference(Coll, id)))

RefSet(Ts, Os) ==
  \E t \in Ts, merge \in BOOLEAN, o \in Os :
    Finish("ref.set", t[1], t[2], merge,
           DocRef_set(Machine, o, DocumentReference(Coll, t[1]), t[2], merge))

Init ==
  /\ config = ProdConfig
  /\ configChecked = FALSE
  /\ token = Null
  /\ tokenExpiry = 0
  /\ clock = 0
  /\ store = EmptyMap
  /\ last = NoCall
  /\ known = EmptyMap
  /\ NoObjects
  /\ inflight = NoCalls

Next ==
  \/ Add({ItemData, IdData}, Oracles({0, 1}, {"ok"}, {0}, DocIds))
  \/ Get(DocIds, Oracles({0, 1}, {"ok"}, {0}, {S("d1")}))
  \/ Update(Targets, Oracles({0, 1, 2}, {"ok"}, {0}, {S("d1")}))
  \/ Delete(DocIds, Oracles({0, 1}, {"ok"}, {0}, {S("d1")}))
  \/ RefGet(DocIds, Oracles({0, 1}, {"ok"}, {0}, {S("d1")}))
  \/ RefSet(Targets, Oracles({0, 1, 2, 3}, {"ok"}, {0}, {S("d1")}))

Spec == Init /\ [][Next]_vars

(***************************************************************************)
(* Claims on documents (Spec)                                              *)
(***************************************************************************)
\* what get(Coll, id) returns from the store as it is now
Stored(id) == convertFromFirestoreDocument(store[DocName(id)]).val

\* the operation found the document: its first exchange is a GET answered 200
FoundExisting == Len(last.reqs) >= 1 /\ last.reqs[1].method = "GET" /\ last.reqs[1].status = 200

\* C1: DocumentReference.set(data) without merge on an existing document
\* overwrites it: a following get returns exactly the fields of data plus id,
\* and no field of the previous document that data lacks survives.
C1_SetOverwrites ==
  (last.op = "ref.set" /\ ~last.merge /\ last.ok /\ FoundExisting)
    => Stored(last.id) = MapSet(last.data, IdKey, Str(last.id))

\* the decoded fields of a wire document, without the id that decoding attaches
FieldsOf(doc) == [key \in DOMAIN doc.fields |-> convertFromFirestoreValue(doc.fields[key])]

RECURSIVE AtPath(_, _)
\* the value at a path of property names under v, Undefined when there is none
AtPath(v, parts) ==
  IF parts = <<>> THEN v
  ELSE IF v.k = "object" /\ parts[1] \in DOMAIN v.m THEN AtPath(v.m[parts[1]], Tail(parts))
  ELSE Undefined

RECURSIVE PathsOf(_)
\* every path of property names that leads to a value under the object v
PathsOf(v) ==
  IF v.k # "object" THEN {<<>>}
  ELSE {<<>>} \cup UNION { {<<key>> \o rest : rest \in PathsOf(v.m[key])} : key \in DOMAIN v.m }

\* C4: update on an existing document writes the existing document with each
\* non-dotted key of data replaced and each dotted key set at its nested path;
\* every field that data does not address keeps its previous value (a field the
\* document did not have stays absent) in the written and returned document.
C4_UpdateMerges ==
  (last.op = "update" /\ last.ok /\ FoundExisting) =>
    LET prev      == Obj(FieldsOf(last.reqs[1].resp))
        written   == Obj(FieldsOf(last.reqs[2].body))
        returned  == Obj([key \in DOMAIN last.val.m \ {IdKey} |-> last.val.m[key]])
        addressed == {Split(key, ".") : key \in DOMAIN last.data}
        Kept(p)   == \A a \in addressed : ~IsPrefixOf(a, p) /\ ~IsPrefixOf(p, a)
    IN /\ \A key \in DOMAIN last.data : AtPath(written, Split(key, ".")) = last.data[key]
       /\ \A p \in PathsOf(prev) \cup PathsOf(written) :
            Kept(p) => AtPath(written, p) = AtPath(prev, p)
       /\ [key \in DOMAIN FieldsOf(last.reqs[2].resp) \ {IdKey} |->
             FieldsOf(last.reqs[2].resp)[key]] = returned.m

\* C5: FirestoreClient.get returns null, without raising, exactly when the store
\* answers 404; the DocumentSnapshot built from that null has exists = false,
\* data() = undefined and the requested id; a found document gives exists = true.
C5_NotFound ==
  /\ last.op = "get" =>
       ((last.ok /\ last.val = Null)
          <=> (Len(last.reqs) = 1 /\ last.reqs[1].status = 404))
  /\ (last.op = "ref.get" /\ Len(last.reqs) = 1 /\ last.reqs[1].status = 404) =>
       /\ last.ok
       /\ ~Snapshot_exists(last.val)
       /\ Snapshot_data(last.val) = Undefined
       /\ Snapshot_id(last.val) = last.id
  /\ (last.op = "ref.get" /\ Len(last.reqs) = 1 /\ last.reqs[1].status = 200) =>
       /\ last.ok
       /\ Snapshot_exists(last.val)
       /\ Snapshot_id(last.val) = last.id

\* a snapshot of a deleted document: the document was there, then a get found nothing
C5_Witness ==
  /\ last.op = "ref.get" /\ last.ok /\ ~Snapshot_exists(last.val)
  /\ store # EmptyMap
\* C23: update on a document that does not exist, its GET answered 404, does
\* not fail for that: it goes on to a PATCH whose body is the encoding of data
\* as given, every key of data a top-level field name, dotted keys included;
\* and when the store accepts the PATCH the call succeeds and the document at
\* that id holds exactly these fields.
C23_UpdateMissing ==
  (last.op = "update" /\ Len(last.reqs) >= 1 /\ last.reqs[1].status = 404) =>
    /\ Len(last.reqs) = 2
    /\ last.reqs[2].method = "PATCH"
    /\ last.reqs[2].body = convertToFirestoreDocument(last.data)
    /\ DOMAIN last.reqs[2].body.fields = DOMAIN last.data
    /\ StatusOk(last.reqs[2].status) =>
         /\ last.ok
         /\ DocName(last.id) \in DOMAIN store
         /\ store[DocName(last.id)].fields = convertToFirestoreDocument(last.data).fields

\* an update with a dotted key on a missing document succeeded, and the
\* document it created has the dotted key as a field name
C23_Witness ==
  /\ last.op = "update" /\ last.ok
  /\ last.reqs[1].status = 404
  /\ last.data = DotData
  /\ DOMAIN store[DocName(last.id)].fields = {<<"profile", ".", "age">>}

\* the operation ended with a PATCH that followed a GET answered 200
WroteOnExisting ==
  /\ Len(last.reqs) >= 2
  /\ last.reqs[Len(last.reqs)].method = "PATCH"
  /\ last.reqs[Len(last.reqs) - 1].method = "GET"
  /\ last.reqs[Len(last.reqs) - 1].status = 200

\* C25: the document that update, and set on an existing document, writes has
\* only fields that the existing document had stored or that the caller's data
\* addresses: the id that decoding attached to the document read is not
\* written as a stored field, and no other field is added.
C25_WritesNoNewField ==
  (last.op \in {"update", "ref.set"} /\ WroteOnExisting) =>
    DOMAIN last.reqs[Len(last.reqs)].body.fields \subseteq
      (DOMAIN last.reqs[Len(last.reqs) - 1].resp.fields
         \cup {Split(key, ".")[1] : key \in DOMAIN last.data})

(***************************************************************************)
(* add, get, update and delete by one caller, in production and against    *)
(* the emulator (SpecCrud)                                                 *)
(***************************************************************************)
InitCrud ==
  /\ config \in {ProdConfig, EmulatorConfig}
  /\ configChecked = FALSE
  /\ token = Null
  /\ tokenExpiry = 0
  /\ clock = 0
  /\ store = EmptyMap
  /\ last = NoCall
  /\ known = EmptyMap
  /\ NoObjects
  /\ inflight = NoCalls

NextCrud ==
  \/ Add({ItemData, IdData}, Oracles({0, 1}, {"ok"}, {0}, DocIds))
  \/ Get(DocIds, Oracles({0, 1}, {"ok"}, {0}, {S("d1")}))
  \/ Update(DocIds \X {NewData}, Oracles({0, 1, 2}, {"ok"}, {0}, {S("d1")}))
  \/ Delete(DocIds, Oracles({0, 1}, {"ok"}, {0}, {S("d1")}))

SpecCrud == InitCrud /\ [][NextCrud]_vars

MaxObjs == 3

Filters ==
  { [field |-> K("name"),  op |-> "==", value |-> Str(S("New"))],
    [field |-> K("value"), op |-> "==", value |-> Num(1)] }

Collection(Paths) ==
  \E path \in Paths :
    /\ Len(objs) < MaxObjs
    /\ Built("collection", 0, Client_collection(Heap, path), <<>>)

Group(Paths) ==
  \E path \in Paths :
    /\ Len(objs) < MaxObjs
    /\ Built("collectionGroup", 0, Client_collectionGroup(Heap, path), <<>>)

Where(Fs) ==
  \E i \in 1..Len(objs), f \in Fs :
    /\ Len(objs) < MaxObjs
    /\ Built("where", i, Ref_where(Heap, i, f.field, f.op, f.value),
             Append(Constraints(Heap, i).where,
                    [field |-> f.field, op |-> FirestoreOp(f.op), value |-> f.value]))

OrderBy(Fields) ==
  \E i \in 1..Len(objs), field \in Fields, directionStr \in {"asc", "desc"} :
    /\ Len(objs) < MaxObjs
    /\ Built("orderBy", i, Ref_orderBy(Heap, i, field, directionStr),
             Constraints(Heap, i).where)

Limit(Ns) ==
  \E i \in 1..Len(objs), n \in Ns :
    /\ Len(objs) < MaxObjs
    /\ Built("limit", i, Ref_limit(Heap, i, n), Constraints(Heap, i).where)

Offset(Ns) ==
  \E i \in 1..Len(objs), n \in Ns :
    /\ Len(objs) < MaxObjs
    /\ Built("offset", i, Ref_offset(Heap, i, n), Constraints(Heap, i).where)

\* get() of object i as one step
Queried(i, r) ==
  /\ last' = Record("query.get", <<>>, EmptyMap, FALSE, i, r)
  /\ known' = known
  /\ inflight' = inflight
  /\ Effect(r)

RefQuery(Os) ==
  \E i \in 1..Len(objs), o \in Os :
    Queried(i, Ref_get(Machine, o, Heap, i))

\* the documents someone wrote to collection c before
SeedStore ==
  LET Doc(id, data) ==
        [name   |-> ResourceName(getDocumentPath(FirestorePath(ProdConfig), Coll, id)),
         fields |-> convertToFirestoreDocument(data).fields]
  IN (Doc(S("d1"), ItemData).name :> Doc(S("d1"), ItemData))
       @@ (Doc(S("d2"), NewData).name :> Doc(S("d2"), NewData))

InitRef ==
  /\ config = ProdConfig
  /\ configChecked = FALSE
  /\ token = Null
  /\ tokenExpiry = 0
  /\ clock = 0
  /\ store = SeedStore
  /\ last = NoCall
  /\ known = EmptyMap
  /\ NoObjects
  /\ inflight = NoCalls

NextRef ==
  \/ Collection({Coll})
  \/ Group({Coll})
  \/ Where(Filters)
  \/ OrderBy({K("name")})
  \/ Limit({1})
  \/ Offset({1})
  \/ RefQuery(Oracles({0, 1}, {"ok"}, {0}, {S("d1")}))

SpecRef == InitRef /\ [][NextRef]_vars

\* C2: where, orderBy, limit and offset never mutate the receiver: its filter
\* list, order field and direction, limit and offset are after the call what
\* they were before it, and get() of a CollectionReference or CollectionGroup
\* executes with empty constraints.
C2_ReceiverUnchanged ==
  /\ last.op \in {"where", "orderBy", "limit", "offset"} =>
       Constraints(Heap, last.recv) = last.before
  /\ (last.op = "query.get" /\ objs[last.recv].kind # "Query" /\ Len(last.reqs) = 1) =>
       DOMAIN last.reqs[1].body.structuredQuery = {"from"}

\* C3: a query holds exactly the filters its receiver had when it was derived
\* followed by the filters of its own where calls, whatever other queries were
\* derived from the same receiver before or after.
C3_OwnFilters ==
  \A i \in 1..Len(objs) :
    objs[i].kind = "Query" => Constraints(Heap, i).where = expect[i]

\* the `from` of the request a get() made
SentFrom == last.reqs[1].body.structuredQuery.from

\* C14: a query made from a chain that starts at client.collectionGroup(id)
\* is sent with allDescendants true and collectionId id, one from a chain that
\* starts at a CollectionReference with allDescendants false; where, orderBy,
\* limit and offset hand the flag and the path of their receiver on unchanged.
C14_GroupFlag ==
  /\ \A i \in 1..Len(objs) :
       /\ objs[i].kind = "CollectionGroup" => objs[i].allDescendants
       /\ objs[i].kind = "CollectionReference" => ~objs[i].allDescendants
  /\ last.op \in {"where", "orderBy", "limit", "offset"} =>
       /\ objs[Len(objs)].allDescendants = objs[last.recv].allDescendants
       /\ objs[Len(objs)].path = objs[last.recv].path
  /\ (last.op = "query.get" /\ last.reqs # <<>>) =>
       SentFrom = <<[collectionId   |-> objs[last.recv].path,
                     allDescendants |-> objs[last.recv].allDescendants]>>

\* a query two calls away from a collection group was sent
C14_Witness ==
  /\ last.op = "query.get" /\ last.ok
  /\ Len(objs) = 3 /\ last.recv = 3
  /\ objs[1].kind = "CollectionGroup" /\ objs[2].kind = "Query" /\ objs[3].kind = "Query"
  /\ objs[3]._queryConstraints.limit # Undefined
  /\ SentFrom[1].allDescendants
(***************************************************************************)
(* Every operation under every configuration (SpecConfig)                  *)
(***************************************************************************)
\* the configurations a caller may construct a client with
Configs ==
  { [ProdConfig EXCEPT !.projectId = p, !.privateKey = k,
                       !.clientEmail = e, !.useEmulator = u] :
      p \in {Undefined, Str(S("P"))}, k \in {Str(<<>>), Str(S("KEY"))},
      e \in {Undefined, Str(S("E"))}, u \in {Undefined, Bool(TRUE)} }

\* client.query(path) without options
QueryAll(Paths, Os) ==
  \E path \in Paths, o \in Os :
    Finish("query", path, EmptyMap, FALSE,
           Client_query(Machine, o, path, NewConstraints(<<>>), FALSE))

\* client.doc(path)
Doc(Paths) ==
  \E path \in Paths :
    /\ last' = Record("doc", path, EmptyMap, FALSE, 0, Client_doc(Machine, path))
    /\ UNCHANGED <<config, configChecked, token, tokenExpiry, clock, store, known,
                   objs, arrays, expect, inflight>>

InitConfig ==
  /\ config \in Configs
  /\ configChecked = FALSE
  /\ token = Null
  /\ tokenExpiry = 0
  /\ clock = 0
  /\ store = EmptyMap
  /\ last = NoCall
  /\ known = EmptyMap
  /\ NoObjects
  /\ inflight = NoCalls

NextConfig ==
  \/ Add({NewData}, Oracles({0, 1}, {"ok"}, {0}, {S("d1")}))
  \/ Get({S("d1")}, Oracles({0}, {"ok"}, {0}, {S("d1")}))
  \/ Update({<<S("d1"), ItemData>>}, Oracles({0}, {"ok"}, {0}, {S("d1")}))
  \/ Delete({S("d1")}, Oracles({0}, {"ok"}, {0}, {S("d1")}))
  \/ QueryAll({Coll}, Oracles({0}, {"ok"}, {0}, {S("d1")}))
  \/ CreateWithId({<<S("d1"), NewData>>}, Oracles({0}, {"ok"}, {0}, {S("d1")}))
  \/ Collection({Coll})
  \/ Group({Coll})
  \/ Doc({Coll, Coll \o <<"/">> \o S("d1")})

SpecConfig == InitConfig /\ [][NextConfig]_vars

NetworkOps == {"add", "get", "update", "delete", "query", "createWithId"}

\* the parameters the configuration lacks
MissingParams ==
  {param \in {"projectId"} : ~Truthy(config[param])}
    \cup IF Truthy(config.useEmulator) THEN {}
         ELSE {param \in {"privateKey", "clientEmail"} : ~Truthy(config[param])}

\* C7: construction validates nothing; a network operation on a configuration
\* that lacks a required parameter fails with the configuration error before
\* any request to the token endpoint or to the store; collection(), doc() and
\* collectionGroup() raise no configuration error; once passed, the
\* configChecked flag stays true.
C7_LazyConfig ==
  /\ last.op = "none" => ~configChecked
  /\ (last.op \in NetworkOps /\ MissingParams # {}) =>
       /\ ~last.ok /\ last.err = "config"
       /\ last.reqs = <<>> /\ last.authReqs = 0 /\ last.tcalls = <<>>
       /\ store = EmptyMap
  /\ (last.op \in NetworkOps /\ MissingParams = {}) =>
       last.err # "config" /\ configChecked
  /\ last.op \in {"collection", "collectionGroup", "doc"} => last.err # "config"
  /\ last.op \in {"collection", "collectionGroup"} => last.ok
  /\ last.checkedBefore => configChecked
  /\ configChecked => MissingParams = {}

\* a reference made on a client whose configuration lacks a parameter, and a
\* network operation that then fails on it
C7_Witness ==
  /\ last.op = "query" /\ last.err = "config"
  /\ Len(objs) >= 1

\* C8: in emulator mode no operation sends a request to the token endpoint;
\* getToken returns the placeholder and leaves the token cache alone; the
\* configuration check asks for projectId only.
C8_EmulatorNoToken ==
  Truthy(config.useEmulator) =>
    /\ last.authReqs = 0
    /\ token = Null /\ tokenExpiry = 0 /\ last.tcalls = <<>>
    /\ \A j \in 1..Len(last.reqs) :
         last.reqs[j].auth \in {Undefined, Str(<<"Bearer ", "emulator-fake-token">>)}
    /\ (last.op = "createWithId" /\ Len(last.reqs) = 1) =>
         last.reqs[1].auth = Str(<<"Bearer ", "emulator-fake-token">>)
    /\ (last.op \in NetworkOps /\ Truthy(config.projectId)) => last.err # "config"

\* createWithId against the emulator without privateKey and clientEmail
C8_Witness ==
  /\ Truthy(config.useEmulator) /\ ~Truthy(config.privateKey) /\ ~Truthy(config.clientEmail)
  /\ last.op = "createWithId" /\ last.ok

(***************************************************************************)
(* The token cache as time passes (SpecToken)                              *)
(***************************************************************************)
\* 25 minutes: the step of the clock
HalfTTL == TokenTTL \div 2

\* the clock stops after this many steps
MaxTicks == 5

\* time passes between two operations
Tick ==
  /\ clock + HalfTTL <= MaxTicks * HalfTTL
  /\ clock' = clock + HalfTTL
  /\ UNCHANGED <<config, configChecked, token, tokenExpiry, store, last, known,
                 objs, arrays, expect, inflight>>

Timely == clock <= (MaxTicks - 2) * HalfTTL

NextToken ==
  \/ Timely /\ Get({S("d1")},
                   TimedOracles({0}, {"ok", "undef", "throw"}, {0, HalfTTL}, {S("d1")}, 1))
  \/ Timely /\ Update({<<S("d1"), NewData>>},
                      TimedOracles({0}, {"ok", "throw"}, {0, HalfTTL}, {S("d1")}, 1))
  \/ Tick

SpecToken == Init /\ [][NextToken]_vars

\* C9 as stated: getToken requests a token when none is cached or the time is
\* at or past the soft expiry, and then sets the soft expiry 50 minutes after
\* the time read at the start of the call; every operation that starts before
\* the soft expiry uses the cached token and makes no auth request.
C9_StartsBeforeExpiry ==
  (last.op \in NetworkOps /\ Len(last.tcalls) >= 1
     /\ last.tcalls[1].cached /\ last.clockBefore < last.tcalls[1].expiry)
    => last.authReqs = 0

\* C9 amended: each getToken call requests a token exactly when none is cached
\* or the time it reads is at or past the soft expiry; a request that returns
\* sets the soft expiry 50 minutes after that time; a call before the soft
\* expiry with a token cached returns it and leaves the cache alone; an
\* operation of one exchange that starts so makes no auth request.
C9_TokenCache ==
  /\ \A i \in 1..Len(last.tcalls) :
       LET c == last.tcalls[i] IN
       /\ c.reqsAfter - c.reqsBefore = IF ~c.cached \/ c.now >= c.expiry THEN 1 ELSE 0
       /\ (c.reqsAfter > c.reqsBefore /\ ~c.threw) => c.expiryAfter = c.now + TokenTTL
       /\ (c.reqsAfter = c.reqsBefore \/ c.threw) => c.expiryAfter = c.expiry
       /\ (c.cached /\ c.now < c.expiry) =>
            /\ last.reqs[i].auth = Str(<<"Bearer ">> \o ToStr(c.token))
            /\ c.tokenAfter = c.token
  /\ (last.op = "get" /\ Len(last.tcalls) = 1
        /\ last.tcalls[1].cached /\ last.clockBefore < last.tcalls[1].expiry)
       => last.authReqs = 0

\* a refresh at or past the soft expiry of a cached token, by an update whose
\* first exchange still used the cached one
C9_Witness ==
  /\ last.op = "update" /\ Len(last.tcalls) = 2
  /\ last.tcalls[1].cached /\ last.tcalls[1].reqsAfter = last.tcalls[1].reqsBefore
  /\ last.tcalls[2].reqsAfter > last.tcalls[2].reqsBefore /\ ~last.tcalls[2].threw

(***************************************************************************)
(* client.doc on every short path (SpecPath)                               *)
(***************************************************************************)
\* the longest path, in characters
MaxPathLen == 4

PathChars == {"a", "b", "/"}

Paths == UNION { [1..n -> PathChars] : n \in 0..MaxPathLen }

NextPath == Doc(Paths)

SpecPath == Init /\ [][NextPath]_vars

RECURSIVE Count(_, _)
\* how many times c occurs in s
Count(s, c) ==
  IF s = <<>> THEN 0 ELSE (IF Head(s) = c THEN 1 ELSE 0) + Count(Tail(s), c)

\* C10: client.doc(path) returns the reference whose collectionPath is the path
\* before its last '/' and whose id is the rest when the number of segments
\* is even, and throws the malformed-path error, with no network call, when
\* it is odd.
C10_PathParity ==
  last.op = "doc" =>
    /\ last.reqs = <<>> /\ last.authReqs = 0 /\ store = EmptyMap
    /\ IF (Count(last.id, "/") + 1) % 2 = 0
         THEN /\ last.ok
              /\ last.val.collectionPath \o <<"/">> \o last.val.docId = last.id
              /\ Count(last.val.docId, "/") = 0
         ELSE ~last.ok /\ last.err = "path"

\* a document in a subcollection
C10_Witness ==
  last.op = "doc" /\ last.ok /\ Count(last.id, "/") = 3

(***************************************************************************)
(* The six operations against a store that refuses exchanges: an exchange  *)
(* may fail (500), the token endpoint may hand out no token (401), and the *)
(* status line may or may not have a reason phrase (SpecErr)               *)
(***************************************************************************)
Http2(Os) == {[o EXCEPT !.http2 = h] : o \in Os, h \in BOOLEAN}

ErrOracles == Http2(Oracles({0, 1, 2}, {"ok", "undef"}, {0}, {S("d1")}))

NextErr ==
  \/ Add({NewData}, ErrOracles)
  \/ Get({S("d1")}, ErrOracles)
  \/ Update({<<S("d1"), ItemData>>}, ErrOracles)
  \/ Delete({S("d1")}, ErrOracles)
  \/ QueryAll({Coll}, ErrOracles)
  \/ CreateWithId({<<S("d1"), NewData>>}, ErrOracles)

SpecErr == InitCrud /\ [][NextErr]_vars

\* a response that is not a success and not the 404 of a read
Refusal(req) == ~StatusOk(req.status) /\ ~(req.method = "GET" /\ req.status = 404)

\* the message names the status: its number, or the reason phrase sent with it
CarriesStatus(message, req) ==
  \/ Includes(message, ToString(req.status))
  \/ req.statusText # <<>> /\ Includes(message, req.statusText[1])

CarriesBody(message, req) == \A i \in 1..Len(req.resp) : Includes(message, req.resp[i])

\* C11: when the store answers an exchange of add, get, update, delete, query
\* or createWithId with a status outside 2xx (the 404 of a read aside), the
\* call fails and the message of its error carries the status and the text of
\* the response body.
C11_ErrorCarriesStatusAndBody ==
  last.op \in NetworkOps =>
    \A j \in DOMAIN last.reqs :
      Refusal(last.reqs[j]) =>
        /\ ~last.ok
        /\ CarriesStatus(last.msg, last.reqs[j])
        /\ CarriesBody(last.msg, last.reqs[j])

\* C22: no operation retries.  A call of add, get, delete, query or
\* createWithId sends at most one request to the document store; a call of
\* update sends at most a GET and then a PATCH; and a request the store
\* refuses (the 404 of a read aside, which is an answer) is the last request
\* of its call, and the call fails.
C22_NoRetry ==
  last.op \in NetworkOps =>
    /\ last.op # "update" => Len(last.reqs) <= 1
    /\ last.op = "update" =>
         /\ Len(last.reqs) <= 2
         /\ Len(last.reqs) >= 1 => last.reqs[1].method = "GET"
         /\ Len(last.reqs) = 2 => last.reqs[2].method = "PATCH"
    /\ \A j \in DOMAIN last.reqs :
         Refusal(last.reqs[j]) => (j = Len(last.reqs) /\ ~last.ok)

\* an update whose GET was answered and whose PATCH the store refused
C22_Witness ==
  /\ last.op = "update"
  /\ Len(last.reqs) = 2
  /\ ~Refusal(last.reqs[1])
  /\ Refusal(last.reqs[2])
  /\ ~last.ok

(***************************************************************************)
(* client.query(path, options) called with a list of filters (SpecQuery)   *)
(***************************************************************************)
MaxFilters == 3

\* the ten operators of the table, a name of the wire, a name of neither
\* kind, and a name every object inherits
WhereOps == DOMAIN opMap \cup {"EQUAL", "LIKE", "constructor"}

\* one filter per operator, its operand the operator's own name
OpFilters ==
  {[field |-> K("name"), op |-> op, value |-> Str(S(op))] : op \in WhereOps}

QueryFilters ==
  {[field |-> K("name"), op |-> "==", value |-> Str(S("Item"))],
   [field |-> K("name"), op |-> "!=", value |-> Str(S("New"))],
   [field |-> K("value"), op |-> "in", value |-> Arr(<<Num(1), Num(2)>>, EmptyMap)],
   [field |-> K("value"), op |-> ">=", value |-> Num(1)]}

\* the lists of up to MaxFilters filters, and every operator on its own
Wheres ==
  UNION {[1..n -> QueryFilters] : n \in 0..MaxFilters} \cup {<<f>> : f \in OpFilters}

\* client.query(path, {where})
FlatQuery(Ps, Ws, Os) ==
  \E path \in Ps, where \in Ws, o \in Os :
    Finish("query", path, NewConstraints(where), FALSE,
           Client_query(Machine, o, path, NewConstraints(where), FALSE))

NextQuery == FlatQuery({Coll}, Wheres, Oracles({0}, {"ok"}, {0}, {S("d1")}))

SpecQuery == InitRef /\ [][NextQuery]_vars

\* the structuredQuery of the request a query made
SentQuery == last.reqs[1].body.structuredQuery

IsFieldFilter(sent, filter) ==
  /\ DOMAIN sent = {"fieldFilter"}
  /\ sent.fieldFilter.field = [fieldPath |-> filter.field]
  /\ sent.fieldFilter.op = WireOp(filter.op)
  /\ sent.fieldFilter.value = convertToFirestoreValue(filter.value)

NextOps ==
  \/ Collection({Coll})
  \/ Where(OpFilters)
  \/ RefQuery(Oracles({0}, {"ok"}, {0}, {S("d1")}))
  \/ FlatQuery({Coll}, {<<f>> : f \in OpFilters}, Oracles({0}, {"ok"}, {0}, {S("d1")}))

SpecOps == InitRef /\ [][NextOps]_vars

\* the fieldFilters of a structuredQuery
SentFilters(sq) ==
  IF "where" \notin DOMAIN sq THEN <<>>
  ELSE IF "fieldFilter" \in DOMAIN sq.where THEN <<sq.where>>
  ELSE sq.where.compositeFilter.filters

\* the operator string the caller gave with a filter of OpFilters
GivenOp(sent) == sent.fieldFilter.value.stringValue[1]

\* C13: each of the ten operators of the table reaches the request as its
\* wire name, through where() chaining and through the options of query();
\* any other operator string, a wire name included, reaches the request
\* unchanged.
C13_OperatorOnWire ==
  (last.op \in {"query", "query.get"} /\ last.reqs # <<>>) =>
    \A i \in 1..Len(SentFilters(SentQuery)) :
      SentFilters(SentQuery)[i].fieldFilter.op =
        IF GivenOp(SentFilters(SentQuery)[i]) \in DOMAIN opMap
          THEN opMap[GivenOp(SentFilters(SentQuery)[i])]
          ELSE GivenOp(SentFilters(SentQuery)[i])

(***************************************************************************)
(* The codec and getDocumentId as pure functions (SpecCodec): the initial  *)
(* state holds an input in last.data, the actions apply the functions      *)
(***************************************************************************)
MaxArrayLen == 2

Leaves ==
  {Str(<<>>), Str(S("a")), Num(0), Num(7), Num(-3), Half(0), Half(2),
   Bool(TRUE), Bool(FALSE), Null, Date(0), Date(45), Date(999)}

ArraysOf(Vs) == {Arr(a, EmptyMap) : a \in UNION {[1..n -> Vs] : n \in 0..MaxArrayLen}}

ObjectsOf(Vs) == {Obj(m) : m \in UNION {[ks -> Vs] : ks \in SUBSET {K("a"), K("b")}}}

Containers == ArraysOf(Leaves) \cup ObjectsOf(Leaves)

\* the native values: scalars, arrays and objects of them, and arrays and
\* objects that hold an array or an object
Values ==
  Leaves \cup Containers
    \cup {Arr(<<v>>, EmptyMap) : v \in Containers}
    \cup {Obj(K("a") :> v) : v \in Containers}

\* wire values as the store sends them: an empty map or array comes without
\* its fields / values member, and there are tags the decoder does not know
Wires ==
  {convertToFirestoreValue(v) : v \in Leaves \cup Containers}
    \cup {[mapValue |-> EmptyMap], [arrayValue |-> EmptyMap],
          [mapValue |-> [fields |-> (K("a") :> [mapValue |-> EmptyMap])]],
          [arrayValue |-> [values |-> <<[arrayValue |-> EmptyMap]>>]],
          [geoPointValue |-> [latitude |-> 0, longitude |-> 0]],
          [referenceValue |-> S("r")], [bytesValue |-> S("b")],
          [timestampValue |-> S("yesterday")], EmptyMap}

Records ==
  {EmptyMap, ItemData, NewData, ProfileData, IdData, ArrayData,
   (K("when") :> Date(45)) @@ (K("ratio") :> Half(2)) @@ (K("none") :> Null),
   (K("tags") :> Arr(<<>>, EmptyMap)) @@ (K("meta") :> EmptyObj)}

\* wire documents: without fields, and without a name
Documents ==
  {[name |-> S("d1")], [name |-> <<>>],
   [name |-> ResourceName(getDocumentPath(FirestorePath(ProdConfig), Coll, S("d1")))],
   [fields |-> convertToFirestoreDocument(NewData).fields], EmptyMap}

ResourceNames ==
  {Str(<<>>), Str(S("d1")), Str(Coll \o <<"/">> \o S("d1")), Str(Coll \o <<"/">>),
   Str(ResourceName(getDocumentPath(FirestorePath(ProdConfig), Coll, S("d2")))),
   Undefined}

InitCodec ==
  /\ config = ProdConfig
  /\ configChecked = FALSE
  /\ token = Null
  /\ tokenExpiry = 0
  /\ clock = 0
  /\ store = EmptyMap
  /\ known = EmptyMap
  /\ NoObjects
  /\ inflight = NoCalls
  /\ \/ \E v \in Values : last = [NoCall EXCEPT !.op = "value", !.data = v]
     \/ \E w \in Wires : last = [NoCall EXCEPT !.op = "wire", !.data = w]
     \/ \E r \in Records : last = [NoCall EXCEPT !.op = "record", !.data = r]
     \/ \E d \in Documents : last = [NoCall EXCEPT !.op = "document", !.data = d]
     \/ \E p \in ResourceNames : last = [NoCall EXCEPT !.op = "path", !.data = p]

\* the outcome of applying a pure function: what went in (and, for a decoding
\* that follows an encoding, the native value before it), what came out
Applied(kind, before, data, r) ==
  /\ last' = [NoCall EXCEPT !.op = kind, !.before = before, !.data = data,
                            !.ok = r.ok, !.val = r.val, !.err = r.err]
  /\ UNCHANGED <<config, configChecked, token, tokenExpiry, clock, store, known,
                 objs, arrays, expect, inflight>>

EncodeValue ==
  /\ last.op = "value"
  /\ Applied("encoded", Undefined, last.data, Returns(convertToFirestoreValue(last.data)))

\* convertFromFirestoreValue(convertToFirestoreValue(v))
DecodeEncoded ==
  /\ last.op = "encoded"
  /\ Applied("roundTrip", last.data, last.val, Returns(convertFromFirestoreValue(last.val)))

DecodeWire ==
  /\ last.op = "wire"
  /\ Applied("decoded", Undefined, last.data, Returns(convertFromFirestoreValue(last.data)))

EncodeRecord ==
  /\ last.op = "record"
  /\ Applied("encodedRecord", Undefined, last.data,
             Returns(convertToFirestoreDocument(last.data)))

\* the encoded record comes back from the store under a name
DecodeRecord(Ids) ==
  \E id \in Ids :
    /\ last.op = "encodedRecord"
    /\ Applied("recordRoundTrip", Obj(last.data),
               [name |-> DocName(id), fields |-> last.val.fields],
               convertFromFirestoreDocument([name |-> DocName(id),
                                             fields |-> last.val.fields]))

DecodeDocument ==
  /\ last.op = "document"
  /\ Applied("decodedDocument", Undefined, last.data,
             convertFromFirestoreDocument(last.data))

GetDocumentId ==
  /\ last.op = "path"
  /\ Applied("getDocumentId", Undefined, last.data, getDocumentId(last.data))

NextCodec ==
  \/ EncodeValue
  \/ DecodeEncoded
  \/ DecodeWire
  \/ EncodeRecord
  \/ DecodeRecord(DocIds)
  \/ DecodeDocument
  \/ GetDocumentId

SpecCodec == InitCodec /\ [][NextCodec]_vars

KnownTags ==
  {"stringValue", "integerValue", "doubleValue", "booleanValue", "nullValue",
   "timestampValue", "mapValue", "arrayValue"}

\* C16: convertFromFirestoreValue returns a plain object for every wire value
\* tagged mapValue and an array for every wire value tagged arrayValue, with
\* or without the inner fields / values member, and null only for the
\* nullValue tag or when no known tag is present.
C16_DecodeTags ==
  last.op = "decoded" =>
    /\ "mapValue" \in DOMAIN last.data => last.val.k = "object"
    /\ "arrayValue" \in DOMAIN last.data => last.val.k = "array"
    /\ last.val = Null =>
         "nullValue" \in DOMAIN last.data \/ DOMAIN last.data \cap KnownTags = {}

\* C17: getDocumentId returns the final '/'-segment of a resource name, the
\* empty string for an empty or undefined one, and never raises;
\* convertFromFirestoreDocument returns for every wire document, one without
\* a name included.
C17_GetDocumentIdTotal ==
  /\ last.op = "getDocumentId" =>
       /\ last.ok
       /\ last.val = IF last.data.k = "undefined" \/ last.data.s = <<>> THEN <<>>
                     ELSE Split(last.data.s, "/")[Len(Split(last.data.s, "/"))]
  /\ last.op = "decodedDocument" => last.ok

(***************************************************************************)
(* Queries on a collection of documents with a category (SpecCat)          *)
(***************************************************************************)
Category(c) == (K("category") :> Str(S(c)))

\* the documents of collection c: categories A, B, A and C, and one document
\* without the field
CatDocs ==
  (S("d1") :> Category("A")) @@ (S("d2") :> Category("B")) @@ (S("d3") :> Category("A"))
    @@ (S("d4") :> Category("C")) @@ (S("d5") :> NewData)

CatName(id) == ResourceName(getDocumentPath(FirestorePath(ProdConfig), Coll, id))

CatStore ==
  [name \in {CatName(id) : id \in DOMAIN CatDocs} |->
     [name   |-> name,
      fields |-> convertToFirestoreDocument(
                   CatDocs[CHOOSE id \in DOMAIN CatDocs : CatName(id) = name]).fields]]

AB == Arr(<<Str(S("A")), Str(S("B"))>>, EmptyMap)

CatFilters ==
  { [field |-> K("category"), op |-> "==",     value |-> Str(S("A"))],
    [field |-> K("category"), op |-> "in",     value |-> AB],
    [field |-> K("category"), op |-> "not-in", value |-> AB],
    [field |-> K("name"),     op |-> "==",     value |-> Str(S("New"))] }

InitCat ==
  /\ config = ProdConfig
  /\ configChecked = FALSE
  /\ token = Null
  /\ tokenExpiry = 0
  /\ clock = 0
  /\ store = CatStore
  /\ last = NoCall
  /\ known = EmptyMap
  /\ NoObjects
  /\ inflight = NoCalls

NextCat ==
  \/ Collection({Coll})
  \/ Where(CatFilters)
  \/ RefQuery(Oracles({0}, {"ok"}, {0}, {S("d1")}))

SpecCat == InitCat /\ [][NextCat]_vars

\* whether a document with this data satisfies a filter of a chain
Holds(data, f) ==
  /\ f.field \in DOMAIN data
  /\ CASE f.op = "EQUAL"  -> data[f.field] = f.value
       [] f.op = "IN"     -> \E j \in 1..Len(f.value.a) : data[f.field] = f.value.a[j]
       [] f.op = "NOT_IN" -> \A j \in 1..Len(f.value.a) : data[f.field] # f.value.a[j]

\* the documents that satisfy every filter of a list
Selected(fs) ==
  {id \in DOMAIN CatDocs : \A j \in 1..Len(fs) : Holds(CatDocs[id], fs[j])}

\* C18: get() on a chain collection(c).where(...)... returns exactly the
\* documents of c that satisfy every filter of the chain, each once, as a
\* DocumentSnapshot with its id and its data.
C18_QueryResults ==
  (last.op = "query.get" /\ last.ok) =>
    /\ {last.val._docs[j]._id : j \in 1..Len(last.val._docs)}
         = {Str(id) : id \in Selected(expect[last.recv])}
    /\ Len(last.val._docs) = Cardinality(Selected(expect[last.recv]))
    /\ \A j \in 1..Len(last.val._docs) :
         last.val._docs[j]._data = Obj(CatDocs[last.val._docs[j]._id.s])


\* the answer to the GET of an update was a refusal
ReadRefused(call) == call.reqs # <<>> /\ Refusal(call.reqs[1])

\* the body an update is to send after the answer to its GET
BodyFrom(read, data) ==
  convertToFirestoreDocument(
    IF read.status = 404 THEN data
    ELSE MergeForUpdate(convertFromFirestoreDocument(read.resp).val, data))

\* C19: an update sends its PATCH only after the answer to its GET, with a
\* body computed from that answer; when the GET is refused with a status other
\* than 404 the update fails, sends no PATCH and leaves the store as it was.
C19_ReadBeforeWrite ==
  [][last'.op = "update" =>
       /\ \A j \in 1..Len(last'.reqs) :
            /\ last'.reqs[j].method = (IF j = 1 THEN "GET" ELSE "PATCH")
            /\ j = 2 => /\ ~Refusal(last'.reqs[1])
                        /\ last'.reqs[2].body = BodyFrom(last'.reqs[1], last'.data)
       /\ Len(last'.reqs) <= 2
       /\ ReadRefused(last') => ~last'.ok /\ Len(last'.reqs) = 1 /\ store' = store]_vars

\* the GET of an update of a stored document was refused
C19_Witness ==
  /\ last.op = "update" /\ ReadRefused(last)
  /\ DOMAIN store # {}

(***************************************************************************)
(* Two callers with an update in flight each (SpecRace): an update is two  *)
(* exchanges, its GET and its PATCH, and the exchanges of the two calls    *)
(* reach the store in any order                                            *)
(***************************************************************************)
ValueData == (K("value") :> Num(2))

\* the machine the next exchange of caller p's call runs on
CallMachine(p) ==
  [Machine EXCEPT !.reqs = inflight[p].reqs, !.tcalls = inflight[p].tcalls,
                  !.authReqs = inflight[p].authReqs]

\* an exchange of caller p's call has been answered
Landed(p, call, r) ==
  /\ inflight' = [inflight EXCEPT ![p] = call]
  /\ Effect(r)
  /\ UNCHANGED <<last, known>>

\* the call after the answer to its GET
Began(p, id, data, r) ==
  Landed(p, [pc |-> IF r.ok THEN "read" ELSE "done", id |-> id, data |-> data,
             read |-> r.val, reqs |-> r.m.reqs, tcalls |-> r.m.tcalls,
             authReqs |-> r.m.authReqs, ok |-> r.ok, val |-> Undefined,
             peerPending |-> FALSE, now |-> 0, fromCache |-> FALSE,
             deleted |-> FALSE], r)

\* the call after the answer to its PATCH; peerPending: another call on the
\* same document had read and not yet written when this PATCH arrived
Ended(p, r) ==
  Landed(p, [inflight[p] EXCEPT
               !.pc = "done", !.ok = r.ok, !.val = r.val, !.reqs = r.m.reqs,
               !.tcalls = r.m.tcalls, !.authReqs = r.m.authReqs,
               !.peerPending = \E q \in Callers \ {p} :
                                  inflight[q].pc = "read" /\ inflight[q].id = inflight[p].id],
         r)

\* caller p calls update(collection, id, data): the call runs to its GET
BeginUpdate(Ts, Os) ==
  \E p \in Callers, t \in Ts, o \in Os :
    /\ inflight[p].pc # "read"
    /\ Began(p, t[1], t[2], Update_read(Machine, o, Coll, t[1]))

\* the call of caller p goes on from the answer to its GET to its PATCH
EndUpdate(Os) ==
  \E p \in Callers, o \in Os :
    /\ inflight[p].pc = "read"
    /\ Ended(p, Update_write(CallMachine(p), o, Coll, inflight[p].id, inflight[p].data,
                             inflight[p].read))

NextRace ==
  \/ BeginUpdate({S("d1")} \X {NewData, ValueData},
                 Oracles({0, 1}, {"ok"}, {0}, {S("d1")}))
  \/ EndUpdate(Oracles({0, 2}, {"ok"}, {0}, {S("d1")}))

SpecRace == InitRef /\ [][NextRace]_vars

\* C20: update does not isolate its read from its write.  The document a
\* successful update leaves holds the caller's data and, in every other field
\* the caller read, the value the caller read, whatever another caller wrote
\* since; so when two updates of one document that change different fields
\* both read before either writes, both succeed and the document lacks the
\* change of the one that wrote first.
C20_NoIsolation ==
  [][\A p \in Callers :
       (inflight[p].pc = "read" /\ inflight'[p].pc = "done" /\ inflight'[p].ok) =>
         /\ \A key \in DOMAIN inflight[p].data :
              FieldsOf(store'[DocName(inflight[p].id)])[key] = inflight[p].data[key]
         /\ Truthy(inflight[p].read) =>
              \A key \in DOMAIN inflight[p].read.m \ DOMAIN inflight[p].data :
                FieldsOf(store'[DocName(inflight[p].id)])[key] = inflight[p].read.m[key]]_vars

\* both calls have reported success, the first wrote while the second had
\* read and not yet written, and the document lacks the first one's change
C20_Witness ==
  \E p \in Callers, q \in Callers :
    /\ p # q
    /\ inflight[p].pc = "done" /\ inflight[p].ok
    /\ inflight[q].pc = "done" /\ inflight[q].ok
    /\ inflight[p].id = inflight[q].id
    /\ DOMAIN inflight[p].data \cap DOMAIN inflight[q].data = {}
    /\ inflight[p].peerPending
    /\ \E key \in DOMAIN inflight[p].data :
         FieldsOf(store[DocName(inflight[p].id)])[key] # inflight[p].data[key]


(***************************************************************************)
(* Two callers whose operations ask for the token at any times             *)
(* (SpecBurst): a getToken call is its part before the request to the      *)
(* token endpoint and its part after the answer, and the parts of the two  *)
(* calls run in any order while time passes                                *)
(***************************************************************************)
TenMinutes == 10 * 60 * 1000

MaxBurstTicks == 7

BurstTimes == {k * TenMinutes : k \in 0..MaxBurstTicks}

\* caller p's getToken has run up to its await, or has returned without one
Started(p, g) ==
  Landed(p, [Idle EXCEPT !.pc = IF g.kind = "await" THEN "awaiting" ELSE "done",
                         !.ok = g.r.ok, !.val = g.r.val, !.now = g.now,
                         !.fromCache = (g.kind = "return")], g.r)

\* caller p's getToken has run from its await to its end; peerPending:
\* another call was waiting for its own answer at that time
Answered(p, r) ==
  Landed(p, [inflight[p] EXCEPT
               !.pc = "done", !.ok = r.ok, !.val = r.val,
               !.peerPending = \E q \in Callers \ {p} : inflight[q].pc = "awaiting"],
         r)

\* an operation of caller p asks for the token
BeginToken ==
  \E p \in Callers :
    /\ inflight[p].pc # "awaiting"
    /\ Started(p, getToken_start(Machine))

\* the token endpoint answers the request of caller p's call, or the request
\* throws
EndToken(Outcomes) ==
  \E p \in Callers, a \in Outcomes :
    /\ inflight[p].pc = "awaiting"
    /\ Answered(p, IF a = "ok"
                     THEN getToken_resume(Machine, inflight[p].now,
                                          IssuedToken(p, inflight[p].now))
                     ELSE Throw(Machine, "auth"))

\* ten minutes pass
BurstTick ==
  /\ clock + TenMinutes <= MaxBurstTicks * TenMinutes
  /\ clock' = clock + TenMinutes
  /\ UNCHANGED <<config, configChecked, token, tokenExpiry, store, last, known,
                 objs, arrays, expect, inflight>>

NextBurst ==
  \/ BeginToken
  \/ EndToken({"ok", "throw"})
  \/ BurstTick

SpecBurst == Init /\ [][NextBurst]_vars

\* the cache is stale: no token, or the time is at or past the soft expiry
Stale == ~Truthy(token) \/ clock >= tokenExpiry

\* the tokens the token endpoint hands out
IssuedTokens == {IssuedToken(p, t) : p \in Callers, t \in BurstTimes}

C30_CacheCoherent ==
  /\ Truthy(token) =>
       \E p \in Callers, t \in BurstTimes :
         token = IssuedToken(p, t) /\ tokenExpiry = t + TokenTTL
  /\ \A p \in Callers :
       (inflight[p].pc = "done" /\ inflight[p].ok /\ inflight[p].fromCache) =>
         \E q \in Callers, t \in BurstTimes :
           /\ inflight[p].val = IssuedToken(q, t)
           /\ inflight[p].now - t < TokenTTL
           /\ inflight[p].now < t + TokenLifetime

\* a call got the token from the cache forty minutes after the request for
\* that token was started, the cache having been written by two calls whose
\* requests were under way at once
C30_Witness ==
  \E p \in Callers, q \in Callers, t \in BurstTimes :
    /\ p # q
    /\ inflight[p].pc = "done" /\ inflight[p].ok /\ inflight[p].fromCache
    /\ inflight[p].val = IssuedToken(q, t)
    /\ inflight[p].now = t + 4 * TenMinutes
    /\ token = inflight[p].val
    /\ inflight[q].pc = "done" /\ inflight[q].val = token /\ inflight[q].peerPending

(***************************************************************************)
(* client.query on every short path (SpecRunQuery)                         *)
(***************************************************************************)
NextRunQuery == QueryAll(Paths, Oracles({0}, {"ok"}, {0}, {S("d1")}))

SpecRunQuery == Init /\ [][NextRunQuery]_vars

\* the segments the Path Builder splits the path of the last query into
BuilderSegments == Split(CleanPath(last.id), "/")

\* the entry of the from clause of the query sent
SentFrom1 == last.reqs[1].body.structuredQuery.from[1]

\* C24: for a path of one segment query() posts to basePath + ':runQuery' with
\* that segment as collectionId; for a longer path it posts to basePath + '/' +
\* the segments but the last joined by '/' + ':runQuery' with the last segment
\* as collectionId.  For every path the collectionId of the from clause is the
\* last of the segments the Path Builder built the URL from.
C24_RunQueryTarget ==
  (last.op = "query" /\ Len(last.reqs) = 1) =>
    /\ SentFrom1.collectionId = BuilderSegments[Len(BuilderSegments)]
    /\ Len(BuilderSegments) = 1 =>
         last.reqs[1].url = getBasePath(pathUtil(Machine)) \o <<":runQuery">>
    /\ Len(BuilderSegments) > 1 =>
         last.reqs[1].url =
           getBasePath(pathUtil(Machine)) \o <<"/">>
             \o Join(SubSeq(BuilderSegments, 1, Len(BuilderSegments) - 1), "/")
             \o <<":runQuery">>


(***************************************************************************)
(* One document read through its reference and through a query of its      *)
(* collection (SpecSnap)                                                   *)
(***************************************************************************)
NextSnap ==
  \/ RefGet(DocIds, Oracles({0, 1}, {"ok"}, {0}, {S("d1")}))
  \/ Collection({Coll})
  \/ RefQuery(Oracles({0, 1}, {"ok"}, {0}, {S("d1")}))
  \/ Update(Targets, Oracles({0}, {"ok"}, {0}, {S("d1")}))

SpecSnap == InitRef /\ [][NextSnap]_vars

\* the QuerySnapshot that collection(Coll).get() returns from the store as it
\* is now, no exchange refused
QueriedNow ==
  QuerySnapshot(Client_query(Machine,
                             CHOOSE o \in Oracles({0}, {"ok"}, {0}, {S("d1")}) : TRUE,
                             Coll, NewConstraints(<<>>), FALSE).val)

\* C26: for one stored document, data() of the DocumentSnapshot that
\* DocumentReference.get() returns equals data() of the DocumentSnapshot for
\* that document in the QuerySnapshot of its collection: the same decoded
\* fields, and the id key in both or in neither.
C26_SameData ==
  (last.op = "ref.get" /\ last.ok /\ Snapshot_exists(last.val)) =>
    \A j \in DOMAIN QueriedNow._docs :
      Snapshot_id(QueriedNow._docs[j]) = Str(Snapshot_id(last.val)) =>
        Snapshot_data(QueriedNow._docs[j]) = Snapshot_data(last.val)


(***************************************************************************)
(* The document operations under every way to address the store (SpecUrl)  *)
(***************************************************************************)
\* production and emulator, the database, the emulator's host and port given
\* or left to their defaults
UrlConfigs ==
  { [c EXCEPT !.databaseId = d, !.emulatorHost = h, !.emulatorPort = p] :
      c \in {ProdConfig, EmulatorConfig}, d \in {Undefined, Str(S("db"))},
      h \in {Undefined, Str(S("host"))}, p \in {Undefined, Num(9099)} }

InitUrl ==
  /\ config \in UrlConfigs
  /\ configChecked = FALSE
  /\ token = Null
  /\ tokenExpiry = 0
  /\ clock = 0
  /\ store = EmptyMap
  /\ last = NoCall
  /\ known = EmptyMap
  /\ NoObjects
  /\ inflight = NoCalls

NextUrl ==
  \/ CreateWithId(DocIds \X {NewData}, Oracles({0}, {"ok"}, {0}, {S("d1")}))
  \/ Get(DocIds, Oracles({0}, {"ok"}, {0}, {S("d1")}))
  \/ Update(DocIds \X {ItemData}, Oracles({0}, {"ok"}, {0}, {S("d1")}))
  \/ Delete(DocIds, Oracles({0}, {"ok"}, {0}, {S("d1")}))

SpecUrl == InitUrl /\ [][NextUrl]_vars

\* the URLs of the requests an operation sent
UrlsOf(r) == {r.m.reqs[j].url : j \in DOMAIN r.m.reqs}

\* the URLs that get, update and delete of document id of collection c send
\* their requests to, on the client as it is now
AddressedBy(c, id) ==
  UNION { UrlsOf(Client_get(Machine, o, c, id))
            \cup UrlsOf(Client_update(Machine, o, c, id, NewData))
            \cup UrlsOf(Client_delete(Machine, o, c, id)) :
          o \in Oracles({0}, {"ok"}, {0}, {S("d1")}) }

\* C27: createWithId(c, id, data) sends its PATCH to the URL that get, update
\* and delete use for (c, id), under every configuration: production or
\* emulator, the emulator's host and port given or not, the database the
\* default or a custom one.
C27_SameUrl ==
  (last.op = "createWithId" /\ Len(last.reqs) = 1) =>
    AddressedBy(Coll, last.id) = {last.reqs[1].url}


(***************************************************************************)
(* A delete while updates of the document are in flight (SpecUndelete)     *)
(***************************************************************************)
\* delete(Coll, id) as one step; deleted: the calls that had read the
\* document and not yet written when the delete returned
Deleted(id, r) ==
  /\ known' = Learn("delete", id, r)
  /\ last' = Record("delete", id, EmptyMap, FALSE, 0, r)
  /\ inflight' = [p \in Callers |->
                    IF r.ok /\ inflight[p].pc = "read" /\ inflight[p].id = id
                      THEN [inflight[p] EXCEPT !.deleted = TRUE]
                      ELSE inflight[p]]
  /\ Effect(r)

DeleteDuring(Ids, Os) ==
  \E id \in Ids, o \in Os : Deleted(id, Client_delete(Machine, o, Coll, id))

NextUndelete ==
  \/ BeginUpdate({S("d1")} \X {NewData, ValueData},
                 Oracles({0}, {"ok"}, {0}, {S("d1")}))
  \/ EndUpdate(Oracles({0}, {"ok"}, {0}, {S("d1")}))
  \/ DeleteDuring({S("d1")}, Oracles({0, 1}, {"ok"}, {0}, {S("d1")}))
  \/ Get({S("d1")}, Oracles({0}, {"ok"}, {0}, {S("d1")}))

SpecUndelete == InitRef /\ [][NextUndelete]_vars

\* caller p's update had read the document when a delete of it returned, the
\* document is still gone, and no call invoked since the delete is in flight
Overtaken(p) ==
  /\ inflight[p].pc = "read" /\ inflight[p].deleted
  /\ DocName(inflight[p].id) \notin DOMAIN store
  /\ \A q \in Callers \ {p} : inflight[q].pc = "read" => inflight[q].deleted

ProfileKinds ==
  {NewData,
   (K("profile") :> Null), (K("profile") :> Str(S("text"))), (K("profile") :> Num(7)),
   (K("profile") :> Bool(TRUE)), ArrayData, (K("profile") :> Date(45)), ProfileData}

JobDot == (<<"profile", ".", "job">> :> Str(S("Writer"))) @@ NewData

InitDots ==
  /\ config = ProdConfig
  /\ configChecked = FALSE
  /\ token = Null
  /\ tokenExpiry = 0
  /\ clock = 0
  /\ store \in { (CatName(S("d1")) :>
                    [name   |-> CatName(S("d1")),
                     fields |-> convertToFirestoreDocument(data).fields]) :
                 data \in ProfileKinds }
  /\ last = NoCall
  /\ known = EmptyMap
  /\ NoObjects
  /\ inflight = NoCalls

NextDots ==
  \/ Update({S("d1")} \X {DotData, JobDot}, Oracles({0, 1, 2}, {"ok"}, {0}, {S("d1")}))
  \/ Get({S("d1")}, Oracles({0, 1}, {"ok"}, {0}, {S("d1")}))

SpecDots == InitDots /\ [][NextDots]_vars

\* C29: update with a dotted key 'p.q' = v on an existing document writes a
\* document that holds at p a map with q = v, whatever was stored at p before:
\* nothing, null, a string, a number, a boolean, an array, a date or a map.
\* The new value is never dropped.
C29_DottedValueWritten ==
  (last.op = "update" /\ FoundExisting /\ Len(last.reqs) = 2) =>
    \A key \in DOMAIN last.data :
      AtPath(Obj(FieldsOf(last.reqs[2].body)), Split(key, ".")) = last.data[key]
====
